---------------------------- MODULE Spec2Model ----------------------------
(***************************************************************************)
(* A model of the codex32 (BIP-93) terminal: the codec of codex32_min.py   *)
(* (charset, checksum, parsing), the share interpolation, the recovery     *)
(* entry point of model.py and the search corrector of error_correction.py. *)
(*                                                                         *)
(* Strings are sequences of character codes (ord), so that case folding,   *)
(* the printable-ASCII test and the charset lookup are computed as the     *)
(* code computes them.  Python indices are 0-based; sequences here are     *)
(* 1-based, and At(s, i) reads the Python index i.                         *)
(* The 65-bit and 75-bit checksum residues are sequences of 13 and 15      *)
(* five-bit symbols, most significant first.                               *)
(***************************************************************************)
EXTENDS Integers, Sequences, FiniteSets, TLC

VARIABLES
    pc,        \* position of the run: "start", then one label per step
    value,     \* the string handed to Codex32String(value)
    share,     \* the result of that construction (a Codex32String or an error)
    data,      \* a symbol sequence handed to ms32_encode
    symbols,   \* a symbol sequence handed to ms32_verify_checksum
    verdict,   \* what ms32_verify_checksum returned for symbols
    shares,    \* the list of Codex32String objects handed to interpolation
    target,    \* the target share index of interpolate_at
    derived,   \* the result of interpolate_at(shares, target)
    recovered, \* the result of recover_secret_share(shares)
    subset,    \* a second list: shares reordered, or drawn from shares + derived
    again,     \* the result of the call repeated on subset
    corrupted, \* the string handed to try_correct_errors / _with_erasures
    original,  \* the valid string or codeword before one symbol was replaced
    hit,       \* [pos, sym]: where and by what original was corrupted
    params,    \* [max_errors, stop_on_first] handed to try_correct_errors; [max_errors] handed to decode_bch
    erasures,  \* the erasure positions handed to try_correct_with_erasures
    correction, \* the CorrectionResult returned
    search, \* the loop of try_correct_errors: [s, max_errors, num_errors, passes]
    codeword, \* the symbol vector before errors are added
    errors, \* the error pattern: a list of <<position, magnitude>>
    received, \* the symbol vector handed to decode_bch
    decoded, \* the CorrectionResult decode_bch returned
    operands, \* the arguments [a, b] of the field operations
    computed, \* what the field operations returned for operands
    payload, \* the symbol sequence handed to _payload_to_bytes
    out, \* the bytes _payload_to_bytes returned
    box, \* the state of a collect_codex32_boxes call: prefix, current, box_number, the input read last and how the call stands
    intent, \* the string the user means to enter next
    entry, \* the state of a _load_seed_from_entry call: its arguments and locals, where it stands, what it displayed last and what it returned
    session \* the state of a _session_loop call: loaded_keys, active_key_index, the action read last and its input, and how the call ended

vars == <<pc, value, share, data, symbols, verdict, shares, target, derived,
          recovered, subset, again, corrupted, original, hit, params, erasures,
          correction,
          search,
          codeword,
          errors,
          received,
          decoded,
          operands,
          computed,
          payload,
          out,
          box,
          intent,
          entry,
          session>>

---------------------------------------------------------------------------
(* Python built-ins on integers, strings and lists *)

\* None, also the value of a variable no operation has set yet
None == "none"

\* min(a, b)
Min(a, b) == IF a < b THEN a ELSE b

\* a copy of s with s[i] = c, for a Python index i
Replace(s, i, c) == [s EXCEPT ![i + 1] = c]

\* a ^ b
RECURSIVE Xor(_, _)
Xor(a, b) ==
    IF a = 0 THEN b
    ELSE IF b = 0 THEN a
    ELSE (((a % 2) + (b % 2)) % 2) + 2 * Xor(a \div 2, b \div 2)

\* a ^ b on operands below 64, tabulated
XorTab == [a \in 0..63 |-> [b \in 0..63 |-> Xor(a, b)]]

\* (b >> i) & 1
Bit(b, i) == (b \div (2 ^ i)) % 2

\* s[i] for a Python index i
At(s, i) == s[i + 1]

\* s[lo:hi] for Python indices 0 <= lo, hi
Slice(s, lo, hi) ==
    LET h == IF hi > Len(s) THEN Len(s) ELSE hi
    IN  IF lo >= h THEN << >> ELSE SubSeq(s, lo + 1, h)

\* a list comprehension, built element by element into a list
ListOf(f) == SubSeq(f, 1, Len(f))

\* e, once x has been computed: arguments are evaluated on demand, and a
\* loop's state must be computed before the next iteration starts
Then(x, e) == IF x = x THEN e ELSE e

\* [x] * n
Repeat(x, n) == ListOf([i \in 1..n |-> x])

\* str.lower() and str.upper() of one character code (ASCII letters)
LowerChar(c) == IF c >= 65 /\ c <= 90 THEN c + 32 ELSE c
UpperChar(c) == IF c >= 97 /\ c <= 122 THEN c - 32 ELSE c
Lower(s) == ListOf([i \in 1..Len(s) |-> LowerChar(s[i])])
Upper(s) == ListOf([i \in 1..Len(s) |-> UpperChar(s[i])])

\* s.rfind("1") as a Python index, -1 when absent
RFind(s, c) ==
    LET found == {i \in 1..Len(s) : s[i] = c}
    IN  IF found = {} THEN -1
        ELSE (CHOOSE i \in found : \A j \in found : j <= i) - 1

---------------------------------------------------------------------------
(* codex32_min.py: constants *)

\* CHARSET = "qpzry9x8gf2tvdw0s3jn54khce6mua7l"
CHARSET ==
    <<113, 112, 122, 114, 121, 57, 120, 56, 103, 102, 50, 116, 118, 100, 119,
      48, 115, 51, 106, 110, 53, 52, 107, 104, 99, 101, 54, 109, 117, 97, 55,
      108>>

\* CHARSET[v] for a symbol v in 0..31
CharOf(v) == CHARSET[v + 1]

\* {c: i for i, c in enumerate(CHARSET)}
CHARSET_MAP ==
    [c \in {CHARSET[i] : i \in 1..Len(CHARSET)} |->
        (CHOOSE i \in 1..Len(CHARSET) : CHARSET[i] = c) - 1]

\* c in CHARSET
InCharset(c) == c \in DOMAIN CHARSET_MAP

\* MS32_CONST = 0x10CE0795C2FD1E62A, as 13 symbols
MS32_CONST == <<16, 25, 24, 3, 25, 11, 16, 23, 29, 3, 25, 17, 10>>

\* MS32_LONG_CONST = 0x43381E570BF4798AB26, as 15 symbols
MS32_LONG_CONST == <<16, 25, 24, 3, 25, 11, 16, 23, 29, 3, 25, 17, 10, 25, 6>>

BECH32_INV ==
    <<0, 1, 20, 24, 10, 8, 12, 29, 5, 11, 4, 9, 6, 28, 26, 31,
      22, 18, 17, 23, 2, 25, 16, 19, 3, 21, 14, 30, 13, 7, 27, 15>>

\* characters the parser names: "1", "m", "s", "0"
Ch1 == 49
ChM == 109
ChS == 115
Ch0 == 48

\* "023456789"
ThresholdChars == {48, 50, 51, 52, 53, 54, 55, 56, 57}

---------------------------------------------------------------------------
(* codex32_min.py: the checksum *)

\* gen of ms32_polymod, each generator as 13 symbols
MS32_GEN ==
    << <<25, 27, 17, 8, 0, 25, 25, 25, 31, 27, 24, 16, 16>>,   \* 0x19DC500CE73FDE210
       <<27, 31, 11, 16, 0, 27, 27, 27, 23, 31, 25, 9, 9>>,    \* 0x1BFAE00DEF77FE529
       <<31, 23, 22, 9, 0, 31, 31, 31, 7, 23, 27, 18, 18>>,    \* 0x1FBD920FFFE7BEE52
       <<23, 7, 5, 18, 0, 23, 23, 23, 14, 7, 31, 13, 13>>,     \* 0x1739640BDEEE3FDAD
       <<7, 14, 10, 13, 0, 7, 7, 7, 28, 14, 23, 26, 26>> >>    \* 0x07729A039CFC75F5A

\* gen of ms32_long_polymod, each generator as 15 symbols
MS32_LONG_GEN ==
    << <<15, 10, 25, 26, 9, 25, 21, 6, 23, 21, 6, 5, 22, 4, 23>>,   \* 0x3D59D273535EA62D897
       <<30, 20, 27, 29, 18, 27, 3, 12, 7, 3, 12, 10, 5, 8, 7>>,    \* 0x7A9BECB6361C6C51507
       <<21, 1, 31, 19, 13, 31, 6, 24, 14, 6, 24, 20, 10, 16, 14>>, \* 0x543F9B7E6C38D8A2A0E
       <<3, 2, 23, 15, 26, 23, 12, 25, 28, 12, 25, 1, 20, 9, 28>>,  \* 0x0C577EAECCF1990D13C
       <<6, 4, 7, 30, 29, 7, 24, 27, 17, 24, 27, 2, 1, 18, 17>> >>  \* 0x1887F74F8DC71B10651

\* residue = 0x23181B3, in 13 and in 15 symbols
MS32_INIT == <<0, 0, 0, 0, 0, 0, 0, 1, 3, 3, 0, 13, 19>>
MS32_LONG_INIT == <<0, 0, 0, 0, 0, 0, 0, 0, 0, 1, 3, 3, 0, 13, 19>>

\* r ^ m on residues of the same width
XorSeq(r, m) == ListOf([i \in 1..Len(r) |-> XorTab[r[i]][m[i]]])

\* for i in range(5): residue ^= gen[i] if ((b >> i) & 1) else 0
RECURSIVE FoldGen(_, _, _, _)
FoldGen(gen, residue, b, i) ==
    IF i = 5 THEN residue
    ELSE FoldGen(gen, IF Bit(b, i) = 1 THEN XorSeq(residue, gen[i + 1]) ELSE residue,
                 b, i + 1)

\* the generator combination of every top symbol b, for either generator set
GenOf(gen) == [b \in 0..31 |-> FoldGen(gen, Repeat(0, Len(gen[1])), b, 0)]
MS32_GEN_OF == GenOf(MS32_GEN)
MS32_LONG_GEN_OF == GenOf(MS32_LONG_GEN)

\* one iteration of the polymod loop: b = residue >> 60 (or 70);
\* residue = (residue & mask) << 5 ^ v; then the generators selected by b
PolymodStep(genOf, residue, v) ==
    XorSeq(Append(Tail(residue), v), genOf[residue[1]])

\* for v in values: the loop over values[lo..hi], run as its first half
\* followed by its second half (the same steps in the same order)
RECURSIVE PolymodRange(_, _, _, _, _)
PolymodRange(genOf, residue, values, lo, hi) ==
    IF lo > hi THEN residue
    ELSE IF lo = hi THEN PolymodStep(genOf, residue, values[lo])
    ELSE LET mid == (lo + hi) \div 2
             left == PolymodRange(genOf, residue, values, lo, mid)
         IN  Then(left, PolymodRange(genOf, left, values, mid + 1, hi))

ms32_polymod(values) == PolymodRange(MS32_GEN_OF, MS32_INIT, values, 1, Len(values))

ms32_long_polymod(values) ==
    PolymodRange(MS32_LONG_GEN_OF, MS32_LONG_INIT, values, 1, Len(values))

ms32_verify_long_checksum(d) == ms32_long_polymod(d) = MS32_LONG_CONST

ms32_create_long_checksum(d) ==
    XorSeq(ms32_long_polymod(d \o Repeat(0, 15)), MS32_LONG_CONST)

\* a comparison that leaves out the leading symbol of the residue
ms32_verify_checksum_narrow(d) ==
    IF Len(d) >= 96 THEN Tail(ms32_long_polymod(d)) = Tail(MS32_LONG_CONST)
    ELSE IF Len(d) <= 93 THEN Tail(ms32_polymod(d)) = Tail(MS32_CONST)
    ELSE FALSE

ms32_verify_checksum(d) ==
    IF Len(d) >= 96 THEN ms32_verify_long_checksum(d)
    ELSE IF Len(d) <= 93 THEN ms32_polymod(d) = MS32_CONST
    ELSE FALSE

\* a creation that takes the long variant two symbols later than the code
ms32_create_checksum_late(d) ==
    IF Len(d) > 82 THEN ms32_create_long_checksum(d)
    ELSE XorSeq(ms32_polymod(d \o Repeat(0, 13)), MS32_CONST)

ms32_create_checksum(d) ==
    IF Len(d) > 80 THEN ms32_create_long_checksum(d)
    ELSE XorSeq(ms32_polymod(d \o Repeat(0, 13)), MS32_CONST)

\* "ms1" + "".join(CHARSET[d] for d in combined)
ms32_encode(d) ==
    LET combined == d \o ms32_create_checksum(d)
    IN  <<ChM, ChS, Ch1>> \o ListOf([i \in 1..Len(combined) |-> CharOf(combined[i])])

\* a checksum length that ignores the long variant
_checksum_length_short(data_values) == 13

_checksum_length(data_values) == IF Len(data_values) >= 96 THEN 15 ELSE 13


---------------------------------------------------------------------------
(* codex32_min.py: parsing a string into a share *)

\* the CodexError messages of _validate_ascii and _decode_data_values
ErrInvalidChars == "Codex32 input contains invalid characters"
ErrSingleCase == "Codex32 input must be single-case"
ErrLength == "Codex32 input has invalid length"
ErrPrefix == "Codex32 input must start with ms1"
ErrMissingData == "Codex32 input missing data payload"
ErrNonBech32 == "Codex32 input has non-bech32 characters"
ErrThreshold == "Codex32 threshold must be 0 or 2-9"
ErrIndexS == "Codex32 share index must be 's' when threshold is 0"
ErrChecksum == "Codex32 checksum failed"

\* value == value.lower() or value == value.upper()
\* a case test that lets every string through
_is_single_case_any(v) == TRUE

_is_single_case(v) == v = Lower(v) \/ v = Upper(v)

\* _validate_ascii raises iff some ord(x) < 33 or ord(x) > 126
_validate_ascii(v) == \A i \in 1..Len(v) : ~(v[i] < 33 \/ v[i] > 126)

\* what a raise leaves: no values, and the message
DecodeError(msg) == [ok |-> FALSE, err |-> msg, values |-> << >>, case |-> "none"]

\* _decode_data_values: (data_values, case), or the CodexError raised
_decode_data_values(codex_str) ==
    IF ~_validate_ascii(codex_str) THEN DecodeError(ErrInvalidChars)
    ELSE IF ~_is_single_case(codex_str) THEN DecodeError(ErrSingleCase)
    ELSE
      LET case == IF codex_str = Upper(codex_str) THEN "upper" ELSE "lower"
          codex == Lower(codex_str)
          pos == RFind(codex, Ch1)
          data_part == Slice(codex, pos + 1, Len(codex))
      IN  IF pos < 2 \/ ~(48 <= Len(codex) /\ Len(codex) <= 127)
            THEN DecodeError(ErrLength)
          ELSE IF Slice(codex, 0, pos) # <<ChM, ChS>> THEN DecodeError(ErrPrefix)
          ELSE IF Len(data_part) = 0 THEN DecodeError(ErrMissingData)
          ELSE IF ~(\A i \in 1..Len(data_part) : InCharset(data_part[i]))
            THEN DecodeError(ErrNonBech32)
          ELSE IF At(data_part, 0) \notin ThresholdChars THEN DecodeError(ErrThreshold)
          ELSE IF At(data_part, 0) = Ch0 /\ Len(data_part) > 5 /\ At(data_part, 5) # ChS
            THEN DecodeError(ErrIndexS)
          ELSE
            LET data_values == ListOf([i \in 1..Len(data_part) |->
                                         CHARSET_MAP[data_part[i]]])
            IN  IF ~ms32_verify_checksum(data_values) THEN DecodeError(ErrChecksum)
                ELSE [ok |-> TRUE, err |-> "", values |-> data_values, case |-> case]

\* the loop body with out.append(acc & 0xFF): the low 8 bits of the
\* accumulator instead of the bits above the remainder
PayloadStep_low(st, v) ==
    LET acc1 == st.acc * 32 + v
        bits1 == st.bits + 5
    IN  IF bits1 >= 8
          THEN LET bits2 == bits1 - 8
               IN  [acc |-> IF bits2 # 0 THEN acc1 % (2 ^ bits2) ELSE 0,
                    bits |-> bits2,
                    out |-> Append(st.out, acc1 % 256)]
          ELSE [acc |-> acc1, bits |-> bits1, out |-> st.out]

\* _payload_to_bytes: one iteration of the for loop on the state
\* st = [acc, bits, out]; the while loop runs at most once, bits being < 8
PayloadStep(st, v) ==
    LET acc1 == st.acc * 32 + v     \* (acc << 5) | value
        bits1 == st.bits + 5
    IN  IF bits1 >= 8
          THEN LET bits2 == bits1 - 8
               IN  [acc |-> IF bits2 # 0 THEN acc1 % (2 ^ bits2) ELSE 0,
                    bits |-> bits2,
                    out |-> Append(st.out, (acc1 \div (2 ^ bits2)) % 256)]
          ELSE [acc |-> acc1, bits |-> bits1, out |-> st.out]

\* for value in payload_values: the loop over payload_values[lo..hi], run
\* as its first half followed by its second half
RECURSIVE PayloadRange(_, _, _, _)
PayloadRange(st, payload_values, lo, hi) ==
    IF lo > hi THEN st
    ELSE IF lo = hi THEN PayloadStep(st, payload_values[lo])
    ELSE LET mid == (lo + hi) \div 2
             left == PayloadRange(st, payload_values, lo, mid)
         IN  Then(left, PayloadRange(left, payload_values, mid + 1, hi))

_payload_to_bytes(payload_values) ==
    PayloadRange([acc |-> 0, bits |-> 0, out |-> << >>], payload_values,
                 1, Len(payload_values)).out

\* a construction that raised: no share object, only the error message
NoShare(msg) ==
    [ok |-> FALSE, raised |-> "CodexError", err |-> msg, value |-> << >>,
     case |-> "none", data_part_values |-> << >>, k |-> 0, ident |-> << >>, share_idx |-> 0,
     payload_values |-> << >>, data |-> << >>]

\* Codex32String(value): __post_init__
Codex32String(v) ==
    LET dec == _decode_data_values(v)
    IN  IF ~dec.ok THEN NoShare(dec.err)
        ELSE
          LET data_values == dec.values
              checksum_len == _checksum_length(data_values)
              data_part_values == Slice(data_values, 0, Len(data_values) - checksum_len)
              data_part_chars == ListOf([i \in 1..Len(data_part_values) |->
                                           CharOf(data_part_values[i])])
          IN  [ok |-> TRUE, raised |-> "", err |-> "", value |-> v, case |-> dec.case,
               data_part_values |-> data_part_values,
               k |-> At(data_part_chars, 0),
               ident |-> Slice(data_part_chars, 1, 5),
               share_idx |-> At(data_part_chars, 5),
               payload_values |-> Slice(data_part_values, 6, Len(data_part_values)),
               data |-> _payload_to_bytes(Slice(data_part_values, 6,
                                                Len(data_part_values)))]

---------------------------------------------------------------------------
(* codex32_min.py: GF(32) multiplication and Lagrange interpolation *)

\* the loop of bech32_mul, from iteration i on
RECURSIVE MulLoop(_, _, _, _)
MulLoop(res, a, b, i) ==
    IF i = 5 THEN res
    ELSE LET res1 == IF Bit(b, i) = 1 THEN XorTab[res][a] ELSE res
             a2 == a * 2
             a3 == IF 32 <= a2 THEN XorTab[a2][41] ELSE a2
         IN  MulLoop(res1, a3, b, i + 1)

\* bech32_mul on all pairs of symbols
MulTab == [a \in 0..31 |-> [b \in 0..31 |-> MulLoop(0, a, b, 0)]]

bech32_mul(a, b) == MulTab[a][b]

\* m = bech32_mul(m, f) over the factors f of a list, starting from m = 1
RECURSIVE MulAll(_)
MulAll(factors) ==
    IF Len(factors) = 0 THEN 1
    ELSE bech32_mul(MulAll(Slice(factors, 0, Len(factors) - 1)),
                    factors[Len(factors)])

\* n ^= t over the terms t of a list, starting from n = 0
RECURSIVE XorAll(_)
XorAll(terms) ==
    IF Len(terms) = 0 THEN 0
    ELSE XorTab[XorAll(Slice(terms, 0, Len(terms) - 1))][terms[Len(terms)]]

bech32_lagrange(indices, x) ==
    LET n == MulAll(ListOf([k \in 1..Len(indices) |-> XorTab[indices[k]][x]]))
        coeff(i) == MulAll(ListOf([k \in 1..Len(indices) |->
                        XorTab[IF i = indices[k] THEN x ELSE i][indices[k]]]))
    IN  ListOf([k \in 1..Len(indices) |->
                  bech32_mul(n, BECH32_INV[coeff(indices[k]) + 1])])

\* shares: a list of symbol lists
ms32_interpolate(sh, x) ==
    LET weights == bech32_lagrange(ListOf([j \in 1..Len(sh) |-> At(sh[j], 5)]), x)
    IN  ListOf([i \in 1..Len(sh[1]) |->
                  XorAll(ListOf([j \in 1..Len(sh) |->
                                   bech32_mul(weights[j], sh[j][i])]))])

ErrNoShares == "No shares provided for interpolation"
ErrInvalidTarget == "Invalid target share index"
ErrSameLength == "Shares must be the same length for interpolation"

\* Codex32String.interpolate_at(shares, target): target is one character
interpolate_at(sh, tgt) ==
    IF Len(sh) = 0 THEN NoShare(ErrNoShares)
    ELSE IF ~InCharset(LowerChar(tgt)) THEN NoShare(ErrInvalidTarget)
    ELSE IF \E j \in 1..Len(sh) :
               Len(sh[j].data_part_values) # Len(sh[1].data_part_values)
         THEN NoShare(ErrSameLength)
    ELSE LET interpolated ==
                 ms32_interpolate(ListOf([j \in 1..Len(sh) |-> sh[j].data_part_values]),
                                  CHARSET_MAP[LowerChar(tgt)])
             encoded == ms32_encode(interpolated)
         IN  Codex32String(IF sh[1].case = "upper" THEN Upper(encoded) ELSE encoded)

---------------------------------------------------------------------------
(* model.py: recovery of the secret share *)

ErrNoSharesRecovery == "No shares provided for recovery"

\* a raised Codex32InputError
Codex32InputError(msg) == [NoShare(msg) EXCEPT !.raised = "Codex32InputError"]

recover_secret_share(sh) ==
    IF Len(sh) = 0 THEN Codex32InputError(ErrNoSharesRecovery)
    ELSE LET r == interpolate_at(sh, ChS)
         IN  IF r.ok THEN r ELSE Codex32InputError(r.err)

---------------------------------------------------------------------------
(* error_correction.py: the search corrector *)

MAX_SUBSTITUTION_ERRORS == 4
MAX_ERASURE_ERRORS == 8

\* the characters str.strip() removes, among the codes below 256
IsSpace(c) == c \in {9, 10, 11, 12, 13, 28, 29, 30, 31, 32, 133, 160}

\* None, handed over where a string is expected
NoneString == <<-1>>

\* codex32_str or ""
OrEmpty(codex32_str) == IF codex32_str = NoneString THEN << >> ELSE codex32_str

\* s.strip()
Strip(s) ==
    LET kept == {i \in 1..Len(s) : ~IsSpace(s[i])}
    IN  IF kept = {} THEN << >>
        ELSE SubSeq(s, CHOOSE i \in kept : \A j \in kept : i <= j,
                       CHOOSE i \in kept : \A j \in kept : j <= i)

\* the lists of a list of lists, one after the other
RECURSIVE Concat(_)
Concat(lists) ==
    IF Len(lists) = 0 THEN << >>
    ELSE Concat(Slice(lists, 0, Len(lists) - 1)) \o lists[Len(lists)]

\* itertools.combinations(range(lo, hi), k), in its order
RECURSIVE combinations(_, _, _)
combinations(lo, hi, k) ==
    IF k = 0 THEN << << >> >>
    ELSE IF hi - lo < k THEN << >>
    ELSE LET with == combinations(lo + 1, hi, k - 1)
         IN  ListOf([i \in 1..Len(with) |-> <<lo>> \o with[i]])
                 \o combinations(lo + 1, hi, k)

\* itertools.product(*options), in its order: the last option varies fastest
RECURSIVE product(_)
product(options) ==
    IF Len(options) = 0 THEN << << >> >>
    ELSE LET rest == product(Tail(options))
             first == options[1]
         IN  Concat(ListOf([i \in 1..Len(first) |->
                 ListOf([j \in 1..Len(rest) |-> <<first[i]>> \o rest[j]])]))

CorrectionCandidate(corrected_string, original_string, error_count, error_positions, error_details) ==
    [corrected_string |-> corrected_string, original_string |-> original_string,
     error_count |-> error_count, error_positions |-> error_positions,
     error_details |-> error_details]

\* a CorrectionResult without its message
CorrectionResult_silent(success, candidates, error_message) ==
    [success |-> success, candidates |-> candidates, error_message |-> None]

CorrectionResult(success, candidates, error_message) ==
    [success |-> success, candidates |-> candidates, error_message |-> error_message]

\* a validator that accepts every string
_validate_codex32_always(s) == TRUE

\* True iff Codex32String(s) does not raise
_validate_codex32(s) == Codex32String(s).ok

\* the tuples (modified_string, position, original_char, new_char), in order
_generate_single_substitutions(s, start_pos) ==
    LET s_lower == Lower(s)
        n == IF Len(s_lower) > start_pos THEN Len(s_lower) - start_pos ELSE 0
        all == ListOf([t \in 1..(n * 32) |->
                   LET pos == start_pos + ((t - 1) \div 32)
                       new_char == CHARSET[((t - 1) % 32) + 1]
                   IN  [modified |-> Replace(s_lower, pos, new_char), pos |-> pos,
                        orig |-> At(s_lower, pos), new |-> new_char]])
    IN  SelectSeq(all, LAMBDA r : r.new # r.orig)

\* the pairs (modified_string, changes), in order; a change is <<pos, orig, new>>
_generate_multi_substitutions(s, num_errors, start_pos) ==
    LET s_lower == Lower(s)
        combos == combinations(start_pos, Len(s_lower), num_errors)
        ForPositions(positions) ==
            LET replacement_options ==
                    ListOf([j \in 1..Len(positions) |->
                        SelectSeq(CHARSET, LAMBDA c : c # At(s_lower, positions[j]))])
                choices == product(replacement_options)
            IN  ListOf([i \in 1..Len(choices) |->
                    [modified |->
                        [q \in 1..Len(s_lower) |->
                            IF \E j \in 1..Len(positions) : positions[j] = q - 1
                            THEN choices[i][CHOOSE j \in 1..Len(positions) :
                                               positions[j] = q - 1]
                            ELSE s_lower[q]],
                     changes |->
                        ListOf([j \in 1..Len(positions) |->
                            <<positions[j], At(s_lower, positions[j]), choices[i][j]>>])]])
    IN  Concat(ListOf([i \in 1..Len(combos) |-> ForPositions(combos[i])]))

\* the candidates appended for the valid single substitutions
SingleCandidates(found, s) ==
    ListOf([i \in 1..Len(found) |->
        CorrectionCandidate(found[i].modified, s, 1, <<found[i].pos>>,
            << <<found[i].pos, found[i].orig, found[i].new>> >>)])

\* the candidates appended for the valid multiple substitutions
MultiCandidates(found, s, num_errors) ==
    ListOf([i \in 1..Len(found) |->
        CorrectionCandidate(found[i].modified, s, num_errors,
            ListOf([j \in 1..Len(found[i].changes) |-> found[i].changes[j][1]]),
            found[i].changes)])

\* the candidates of one pass of the loop over num_errors
CandidatesAt(s, num_errors) ==
    IF num_errors = 1
    THEN SingleCandidates(SelectSeq(_generate_single_substitutions(s, 3),
                                    LAMBDA r : _validate_codex32(r.modified)), s)
    ELSE MultiCandidates(SelectSeq(_generate_multi_substitutions(s, num_errors, 3),
                                   LAMBDA r : _validate_codex32(r.modified)),
                         s, num_errors)

\* the loop "for num_errors in range(1, max_errors + 1)", from num_errors on;
\* AfterPass is the end of one pass, with the candidates that pass found
RECURSIVE SearchFrom(_, _, _, _)
RECURSIVE AfterPass(_, _, _, _, _)
AfterPass(candidates, s, num_errors, max_errors, stop_on_first) ==
    IF Len(candidates) > 0
    THEN CorrectionResult(TRUE,
             IF stop_on_first THEN <<candidates[1]>> ELSE candidates, None)
    ELSE SearchFrom(s, num_errors + 1, max_errors, stop_on_first)

SearchFrom(s, num_errors, max_errors, stop_on_first) ==
    IF num_errors > max_errors
    THEN CorrectionResult(FALSE, << >>,
             "No valid correction found with up to " \o ToString(max_errors)
                 \o " errors")
    ELSE AfterPass(CandidatesAt(s, num_errors), s, num_errors, max_errors,
                   stop_on_first)

\* the body of try_correct_errors on the stripped string s
CorrectStripped(s, max_errors, stop_on_first) ==
    IF Len(s) = 0 THEN CorrectionResult(FALSE, << >>, "Empty input string")
    ELSE IF _validate_codex32(s)
    THEN CorrectionResult(TRUE, <<CorrectionCandidate(s, s, 0, << >>, << >>)>>, None)
    ELSE SearchFrom(s, 1, Min(max_errors, MAX_SUBSTITUTION_ERRORS), stop_on_first)

try_correct_errors(codex32_str, max_errors, stop_on_first) ==
    CorrectStripped(Strip(OrEmpty(codex32_str)), max_errors, stop_on_first)

\* the loop over zip(erasure_positions, chars), from its j-th pair on
RECURSIVE FillErasures(_, _, _, _, _)
FillErasures(test_str, changes, erasure_positions, chars, j) ==
    IF j > Len(erasure_positions) THEN [modified |-> test_str, changes |-> changes]
    ELSE LET pos == erasure_positions[j]
             new_char == chars[j]
             orig_char == At(test_str, pos)
         IN  FillErasures(Replace(test_str, pos, new_char),
                          IF new_char # orig_char
                          THEN Append(changes, <<pos, orig_char, new_char>>)
                          ELSE changes,
                          erasure_positions, chars, j + 1)

\* the candidates appended for the valid fillings
ErasureCandidates(found, s, erasure_positions) ==
    ListOf([i \in 1..Len(found) |->
        CorrectionCandidate(found[i].modified, s, Len(erasure_positions),
                            erasure_positions, found[i].changes)])

\* the end of try_correct_with_erasures, with the candidates found
ErasureResult(candidates) ==
    IF Len(candidates) > 0 THEN CorrectionResult(TRUE, candidates, None)
    ELSE CorrectionResult(FALSE, << >>,
             "No valid correction found for given erasure positions")

\* the fillings of the erasure positions, in the order of product(CHARSET, ...)
Fillings(fills, s, erasure_positions) ==
    ListOf([i \in 1..Len(fills) |->
        FillErasures(s, << >>, erasure_positions, fills[i], 1)])

\* the body of try_correct_with_erasures on the stripped lower-case string s
CorrectErasures(s, erasure_positions, bad) ==
    IF Len(s) = 0 THEN CorrectionResult(FALSE, << >>, "Empty input string")
    ELSE IF Len(erasure_positions) > MAX_ERASURE_ERRORS
    THEN CorrectionResult(FALSE, << >>,
             "Too many erasures (" \o ToString(Len(erasure_positions))
                 \o "), max is " \o ToString(MAX_ERASURE_ERRORS))
    ELSE IF bad # {}
    THEN CorrectionResult(FALSE, << >>,
             "Erasure position "
                 \o ToString(erasure_positions[CHOOSE j \in bad : \A i \in bad : j <= i])
                 \o " out of range")
    ELSE ErasureResult(ErasureCandidates(
             SelectSeq(Fillings(product(Repeat(CHARSET, Len(erasure_positions))),
                                s, erasure_positions),
                       LAMBDA r : _validate_codex32(r.modified)),
             s, erasure_positions))

\* the indices of the erasure positions outside the string s
OutOfRange(s, erasure_positions) ==
    {j \in 1..Len(erasure_positions) :
        erasure_positions[j] < 0 \/ erasure_positions[j] >= Len(s)}

try_correct_with_erasures(codex32_str, erasure_positions) ==
    CorrectErasures(Lower(Strip(OrEmpty(codex32_str))), erasure_positions,
                    OutOfRange(Lower(Strip(OrEmpty(codex32_str))), erasure_positions))

---------------------------------------------------------------------------
(* tests/: the BIP-93 test vectors the repository's tests use *)

\* "ms10testsxxxxxxxxxxxxxxxxxxxxxxxxxx4nzvca9cmczlw"
VECTOR1 ==
    <<
      109, 115, 49, 48, 116, 101, 115, 116, 115, 120, 120, 120, 120, 120, 120,
      120, 120, 120, 120, 120, 120, 120, 120, 120, 120, 120, 120, 120, 120, 120,
      120, 120, 120, 120, 120, 52, 110, 122, 118, 99, 97, 57, 99, 109, 99,
      122, 108, 119 >>

\* "MS12NAMEA320ZYXWVUTSRQPNMLKJHGFEDCAXRPP870HKKQRM"
VECTOR2_A ==
    <<
      77, 83, 49, 50, 78, 65, 77, 69, 65, 51, 50, 48, 90, 89, 88,
      87, 86, 85, 84, 83, 82, 81, 80, 78, 77, 76, 75, 74, 72, 71,
      70, 69, 68, 67, 65, 88, 82, 80, 80, 56, 55, 48, 72, 75, 75,
      81, 82, 77 >>

\* "MS12NAMECACDEFGHJKLMNPQRSTUVWXYZ023FTR2GDZMPY6PN"
VECTOR2_C ==
    <<
      77, 83, 49, 50, 78, 65, 77, 69, 67, 65, 67, 68, 69, 70, 71,
      72, 74, 75, 76, 77, 78, 80, 81, 82, 83, 84, 85, 86, 87, 88,
      89, 90, 48, 50, 51, 70, 84, 82, 50, 71, 68, 90, 77, 80, 89,
      54, 80, 78 >>

\* "MS12NAMES6XQGUZTTXKEQNJSJZV4JV3NZ5K3KWGSPHUH6EVW"
VECTOR2_S ==
    <<
      77, 83, 49, 50, 78, 65, 77, 69, 83, 54, 88, 81, 71, 85, 90,
      84, 84, 88, 75, 69, 81, 78, 74, 83, 74, 90, 86, 52, 74, 86,
      51, 78, 90, 53, 75, 51, 75, 87, 71, 83, 80, 72, 85, 72, 54,
      69, 86, 87 >>

\* "ms13casha320zyxwvutsrqpnmlkjhgfedca2a8d0zehn8a0t"
VECTOR3_A ==
    <<
      109, 115, 49, 51, 99, 97, 115, 104, 97, 51, 50, 48, 122, 121, 120,
      119, 118, 117, 116, 115, 114, 113, 112, 110, 109, 108, 107, 106, 104, 103,
      102, 101, 100, 99, 97, 50, 97, 56, 100, 48, 122, 101, 104, 110, 56,
      97, 48, 116 >>

\* "ms13cashcacdefghjklmnpqrstuvwxyz023949xq35my48dr"
VECTOR3_C ==
    <<
      109, 115, 49, 51, 99, 97, 115, 104, 99, 97, 99, 100, 101, 102, 103,
      104, 106, 107, 108, 109, 110, 112, 113, 114, 115, 116, 117, 118, 119, 120,
      121, 122, 48, 50, 51, 57, 52, 57, 120, 113, 51, 53, 109, 121, 52,
      56, 100, 114 >>

\* "ms13cashd0wsedstcdcts64cd7wvy4m90lm28w4ffupqs7rm"
VECTOR3_D ==
    <<
      109, 115, 49, 51, 99, 97, 115, 104, 100, 48, 119, 115, 101, 100, 115,
      116, 99, 100, 99, 116, 115, 54, 52, 99, 100, 55, 119, 118, 121, 52,
      109, 57, 48, 108, 109, 50, 56, 119, 52, 102, 102, 117, 112, 113, 115,
      55, 114, 109 >>

\* "ms13cashsllhdmn9m42vcsamx24zrxgs3qqjzqud4m0d6nln"
VECTOR3_S ==
    <<109, 115, 49, 51, 99, 97, 115, 104, 115, 108, 108, 104,
      100, 109, 110, 57, 109, 52, 50, 118, 99, 115, 97, 109,
      120, 50, 52, 122, 114, 120, 103, 115, 51, 113, 113, 106,
      122, 113, 117, 100, 52, 109, 48, 100, 54, 110, 108, 110>>

\* "ms10leetsllhdmn9m42vcsamx24zrxgs3qrl7ahwvhw4fnzrhve25gvezzyqqtum9pgv99ycma"
VECTOR_74 ==
    <<
      109, 115, 49, 48, 108, 101, 101, 116, 115, 108, 108, 104, 100, 109, 110,
      57, 109, 52, 50, 118, 99, 115, 97, 109, 120, 50, 52, 122, 114, 120,
      103, 115, 51, 113, 114, 108, 55, 97, 104, 119, 118, 104, 119, 52, 102,
      110, 122, 114, 104, 118, 101, 50, 53, 103, 118, 101, 122, 122, 121, 113,
      113, 116, 117, 109, 57, 112, 103, 118, 57, 57, 121, 99, 109, 97 >>

---------------------------------------------------------------------------
(* The inputs of the bounded checks *)

\* a data part of n symbols: threshold symbol t, share index symbol x, and the
\* identifier and payload symbols spread by seed
PatternData(n, t, x, seed) ==
    ListOf([i \in 1..n |->
        IF i = 1 THEN t
        ELSE IF i = 6 THEN x
        ELSE (seed * i + i * i + 3) % 32])

---------------------------------------------------------------------------
(* Parsing: Codex32String(value) on well-formed and malformed strings *)

ParseVectors == <<VECTOR2_S, VECTOR3_A, VECTOR1, VECTOR_74, VECTOR2_A, VECTOR3_C>>

\* how many of ParseVectors are used
NParseVectors == 3

\* how many payload patterns are encoded
NSeeds == 2

ParseBase == {ParseVectors[i] : i \in 1..Min(NParseVectors, Len(ParseVectors))}

\* Python indices that get a character replaced: the prefix, the separator,
\* the threshold, the share index, the payload, the last checksum character
MutPositions == {0, 1, 2, 3, 8, 20, 47}

\* " ", "0", "1", "2", "M", "Q", "S", "b", "m", "q", "s", DEL, e-acute
MutChars == {32, 48, 49, 50, 77, 81, 83, 98, 109, 113, 115, 127, 233}

Mutated == {Replace(v, p, c) : v \in ParseBase, p \in MutPositions, c \in MutChars}

Recased == {Upper(v) : v \in ParseBase} \cup {Lower(v) : v \in ParseBase}

\* data-part lengths around every length rule: 44 and 45 symbols with the
\* checksum, 93 and 96, 124 and 125
ParseDataLens == {31, 32, 80, 81, 109, 110}

\* threshold symbols "0", "2", "9", and the non-digits "q", "s"
ParseThresholds == {15, 10, 5, 0, 16}

\* share index symbols "s" and "a"
ParseIndices == {16, 29}

Encoded ==
    {ms32_encode(PatternData(n, t, x, seed)) :
        n \in ParseDataLens, t \in ParseThresholds, x \in ParseIndices,
        seed \in 1..NSeeds}

Resized ==
    {Slice(v, 0, Len(v) - 1) : v \in ParseBase \cup Encoded}
        \cup {v \o <<113>> : v \in ParseBase \cup Encoded}

\* the empty string, the bare prefix, a 47-character string ending in "1"
Short == {<< >>, <<ChM, ChS, Ch1>>, Repeat(ChM, 46) \o <<Ch1>>}

ParseInputs ==
    ParseBase \cup Mutated \cup Recased \cup Encoded
        \cup {Upper(v) : v \in Encoded} \cup Resized \cup Short

ParseInit ==
    /\ pc = "start"
    /\ value \in ParseInputs
    /\ share = None
    /\ data = None /\ symbols = None /\ verdict = None
    /\ shares = None /\ target = None /\ derived = None /\ subset = None
    /\ recovered = None /\ again = None
    /\ corrupted = None /\ original = None /\ hit = None /\ params = None /\ erasures = None
    /\ correction = None
    /\ session = None
    /\ entry = None
    /\ intent = None
    /\ box = None
    /\ out = None
    /\ payload = None
    /\ computed = None
    /\ operands = None
    /\ decoded = None
    /\ received = None
    /\ errors = None
    /\ codeword = None
    /\ search = None

\* Codex32String(value)
Construct ==
    /\ pc = "start"
    /\ share' = Codex32String(value)
    /\ pc' = "done"
    /\ UNCHANGED <<value, data, symbols, verdict, shares, target, derived, subset,
                   recovered, again, corrupted, original, hit, params,
                   erasures, correction,
                   search,
                   codeword,
                   errors,
                   received,
                   decoded,
                   operands,
                   computed,
                   payload,
                   out,
                   box,
                   intent,
                   entry,
                   session>>

ParseNext == Construct

SpecParse == ParseInit /\ [][ParseNext]_vars

\* the CodexError messages
CodexErrors ==
    {ErrInvalidChars, ErrSingleCase, ErrLength, ErrPrefix, ErrMissingData,
     ErrNonBech32, ErrThreshold, ErrIndexS, ErrChecksum}

\* the parsing contract, rule by rule
ParsingContract(v) ==
    /\ \A i \in 1..Len(v) : v[i] >= 33 /\ v[i] <= 126
    /\ \/ \A i \in 1..Len(v) : ~(v[i] >= 65 /\ v[i] <= 90)
       \/ \A i \in 1..Len(v) : ~(v[i] >= 97 /\ v[i] <= 122)
    /\ Len(v) >= 48 /\ Len(v) <= 127
    /\ LET l == Lower(v)
       IN  /\ At(l, 2) = Ch1 /\ \A i \in 3..(Len(l) - 1) : At(l, i) # Ch1
           /\ At(l, 0) = ChM /\ At(l, 1) = ChS
           /\ \A i \in 3..(Len(l) - 1) : InCharset(At(l, i))
           /\ At(l, 3) \in ThresholdChars
           /\ (At(l, 3) = Ch0 => At(l, 8) = ChS)
           /\ ms32_verify_checksum(
                  ListOf([i \in 1..(Len(l) - 3) |-> CHARSET_MAP[l[i + 3]]]))

\* C1: Codex32String(value) succeeds if and only if value satisfies every rule
\* of the parsing contract; in every other case it raises CodexError and no
\* share object is produced.
C1_ConstructionIffContract ==
    pc = "done" =>
        /\ share.ok <=> ParsingContract(value)
        /\ share.ok => share.value = value /\ share.err = ""
        /\ ~share.ok => share.err \in CodexErrors /\ share = NoShare(share.err)

\* an upper-case string was accepted
C1_Witness == pc = "done" /\ share.ok /\ share.case = "upper"

---------------------------------------------------------------------------
(* Codec: ms32_encode, Codex32String and ms32_verify_checksum on data parts *)

\* data parts <<length, threshold symbol, share index symbol, seed>>: both ends
\* of the short range (32, 80) and of the long range (81, 109) come first;
\* thresholds "0" (with index "s"), "9" and "2"
CodecCases ==
    << <<32, 15, 16, 1>>, <<80, 5, 29, 1>>, <<81, 10, 16, 2>>, <<109, 15, 16, 1>>,
       <<33, 5, 29, 2>>, <<108, 10, 29, 1>> >>

\* how many of CodecCases are used
NCodecCases == 4

CodecData ==
    {PatternData(CodecCases[i][1], CodecCases[i][2], CodecCases[i][3], CodecCases[i][4]) :
        i \in 1..Min(NCodecCases, Len(CodecCases))}
        \cup {Codex32String(VECTOR3_A).data_part_values}

\* masks xor-ed into a symbol to replace it by another one
NMasks == 31

CodecInit ==
    /\ pc = "start"
    /\ data \in CodecData
    /\ value = None /\ share = None
    /\ symbols = None /\ verdict = None
    /\ shares = None /\ target = None /\ derived = None /\ subset = None
    /\ recovered = None /\ again = None
    /\ corrupted = None /\ original = None /\ hit = None /\ params = None /\ erasures = None
    /\ correction = None
    /\ session = None
    /\ entry = None
    /\ intent = None
    /\ box = None
    /\ out = None
    /\ payload = None
    /\ computed = None
    /\ operands = None
    /\ decoded = None
    /\ received = None
    /\ errors = None
    /\ codeword = None
    /\ search = None

\* ms32_encode(data), and the codeword data + ms32_create_checksum(data)
Encode ==
    /\ pc = "start"
    /\ value' = ms32_encode(data)
    /\ symbols' = data \o ms32_create_checksum(data)
    /\ pc' = "encoded"
    /\ UNCHANGED <<share, data, verdict, shares, target, derived, subset,
                   recovered, again, corrupted, original, hit, params,
                   erasures, correction,
                   search,
                   codeword,
                   errors,
                   received,
                   decoded,
                   operands,
                   computed,
                   payload,
                   out,
                   box,
                   intent,
                   entry,
                   session>>

\* Codex32String(value), and ms32_verify_checksum on the codeword
Decode ==
    /\ pc = "encoded"
    /\ share' = Codex32String(value)
    /\ verdict' = ms32_verify_checksum(symbols)
    /\ pc' = "decoded"
    /\ UNCHANGED <<value, data, symbols, shares, target, derived, subset,
                   recovered, again, corrupted, original, hit, params,
                   erasures, correction,
                   search,
                   codeword,
                   errors,
                   received,
                   decoded,
                   operands,
                   computed,
                   payload,
                   out,
                   box,
                   intent,
                   entry,
                   session>>

\* one symbol of an accepted codeword is replaced by another symbol, and the
\* result is verified and parsed again
Corrupt ==
    /\ pc = "decoded"
    /\ verdict
    /\ \E p \in 0..(Len(symbols) - 1), mask \in 1..Min(NMasks, 31) :
          LET c == XorTab[At(symbols, p)][mask]
              flipped == Replace(symbols, p, c)
          IN  /\ hit' = [pos |-> p, sym |-> c]
              /\ original' = symbols
              /\ symbols' = flipped
              /\ value' = <<ChM, ChS, Ch1>>
                            \o ListOf([i \in 1..Len(flipped) |-> CharOf(flipped[i])])
              /\ verdict' = ms32_verify_checksum(flipped)
              /\ share' = Codex32String(value')
    /\ pc' = "corrupted"
    /\ UNCHANGED <<data, shares, target, derived, subset, recovered, again,
                   corrupted, params, erasures, correction,
                   search,
                   codeword,
                   errors,
                   received,
                   decoded,
                   operands,
                   computed,
                   payload,
                   out,
                   box,
                   intent,
                   entry,
                   session>>

CodecNext == Encode \/ Decode \/ Corrupt

SpecCodec == CodecInit /\ [][CodecNext]_vars

\* C2: for every data part d with a valid header and a supported length,
\* Codex32String(ms32_encode(d)) is accepted and its data_part_values equal d,
\* and ms32_verify_checksum(d + ms32_create_checksum(d)) is true.
C2_EncodeDecodeRoundTrip ==
    pc = "decoded" =>
        /\ share.ok
        /\ share.data_part_values = data
        /\ verdict

\* a data part of the long range went through the round trip
C2_Witness ==
    pc = "decoded" /\ Len(data) = 109 /\ share.ok /\ share.data_part_values = data

\* C3: replacing one symbol of an accepted codeword by any other symbol gives
\* a sequence that ms32_verify_checksum rejects, and the string does not parse.
C3_SingleSymbolFlipRejected ==
    pc = "corrupted" => ~verdict /\ ~share.ok

\* the first checksum symbol of a codeword was replaced, and the string was rejected
C3_Witness ==
    /\ pc = "corrupted"
    /\ hit.pos = Len(original) - 13
    /\ hit.sym # At(original, hit.pos)
    /\ ~verdict

---------------------------------------------------------------------------
(* Shares: interpolate_at and recover_secret_share on lists of shares *)

\* a 48-character share with threshold 2, index "d" and another identifier
OTHER_D == Upper(ms32_encode(PatternData(32, 10, 13, 1)))

\* the pools share lists are drawn from: the 2-of-n set with its secret and a
\* lower-case copy; the 3-of-n set and a share of the 2-of-n set; shares of
\* another identifier and of another length; lower-case copies
Families ==
    << <<VECTOR2_A, VECTOR2_C, VECTOR2_S, Lower(VECTOR2_C)>>,
       <<VECTOR3_A, VECTOR3_C, VECTOR3_D, VECTOR2_A>>,
       <<VECTOR2_A, VECTOR2_C, OTHER_D, VECTOR_74>>,
       <<Lower(VECTOR2_A), Lower(OTHER_D), VECTOR3_A, Upper(VECTOR3_C)>> >>

\* how many of the pools are used
NFamilies == 3

\* the longest share list
MaxShares == 3

\* lists of parsed shares of at most MaxShares members of one pool
ShareLists ==
    UNION {
      UNION { { ListOf([j \in 1..n |-> Codex32String(Families[f][pick[j]])]) :
                  pick \in [1..n -> 1..Len(Families[f])] } : n \in 0..MaxShares }
      : f \in 1..Min(NFamilies, Len(Families)) }

\* targets "s", "e", "A" and the character "1", which is no share index
Targets == {ChS, 101, 65, Ch1}

\* the threshold of a share as a number
Threshold(sh) == sh.k - Ch0

Indices(sh) == {sh[j].share_idx : j \in 1..Len(sh)}

HasDuplicateIndex(sh) ==
    \E i, j \in 1..Len(sh) : i # j /\ sh[i].share_idx = sh[j].share_idx

SameHeader(sh) ==
    \A i, j \in 1..Len(sh) : sh[i].k = sh[j].k /\ sh[i].ident = sh[j].ident

SameLength(sh) ==
    \A i, j \in 1..Len(sh) : Len(sh[i].data_part_values) = Len(sh[j].data_part_values)

\* a share set: same threshold and identifier, pairwise distinct indices, at
\* least threshold many shares
ValidShareSet(sh) ==
    /\ Len(sh) > 0
    /\ SameHeader(sh) /\ SameLength(sh)
    /\ ~HasDuplicateIndex(sh)
    /\ Len(sh) >= Threshold(sh[1])

\* the reorderings of a list
Reorderings(sh) ==
    { ListOf([j \in 1..Len(sh) |-> sh[p[j]]]) :
        p \in {q \in [1..Len(sh) -> 1..Len(sh)] :
                 \A i, j \in 1..Len(sh) : i # j => q[i] # q[j]} }

\* a list without its member at Python index i
RemoveAt(sh, i) == Slice(sh, 0, i) \o Slice(sh, i + 1, Len(sh))

SharesInit ==
    /\ pc = "start"
    /\ shares \in ShareLists
    /\ target = None /\ derived = None /\ subset = None
    /\ recovered = None /\ again = None
    /\ value = None /\ share = None /\ data = None
    /\ symbols = None /\ verdict = None
    /\ corrupted = None /\ original = None /\ hit = None /\ params = None /\ erasures = None
    /\ correction = None
    /\ session = None
    /\ entry = None
    /\ intent = None
    /\ box = None
    /\ out = None
    /\ payload = None
    /\ computed = None
    /\ operands = None
    /\ decoded = None
    /\ received = None
    /\ errors = None
    /\ codeword = None
    /\ search = None

\* Codex32String.interpolate_at(shares, target)
Interpolate ==
    /\ pc = "start"
    /\ \E t \in Targets :
          /\ target' = t
          /\ derived' = interpolate_at(shares, t)
    /\ pc' = "interpolated"
    /\ UNCHANGED <<value, share, data, symbols, verdict, shares, recovered, subset,
                   again, corrupted, original, hit, params,
                   erasures, correction,
                   search,
                   codeword,
                   errors,
                   received,
                   decoded,
                   operands,
                   computed,
                   payload,
                   out,
                   box,
                   intent,
                   entry,
                   session>>

\* recover_secret_share(shares)
Recover ==
    /\ pc = "start"
    /\ recovered' = recover_secret_share(shares)
    /\ pc' = "recovered"
    /\ UNCHANGED <<value, share, data, symbols, verdict, shares, target, derived,
                   subset, again, corrupted, original, hit, params,
                   erasures, correction,
                   search,
                   codeword,
                   errors,
                   received,
                   decoded,
                   operands,
                   computed,
                   payload,
                   out,
                   box,
                   intent,
                   entry,
                   session>>

\* interpolate_at on a reordering of a share set
InterpolatePermuted ==
    /\ pc = "interpolated"
    /\ ValidShareSet(shares)
    /\ \E p \in Reorderings(shares) :
          /\ subset' = p
          /\ again' = interpolate_at(p, target)
    /\ pc' = "interpolated again"
    /\ UNCHANGED <<value, share, data, symbols, verdict, shares, target, derived,
                   recovered, corrupted, original, hit, params,
                   erasures, correction,
                   search,
                   codeword,
                   errors,
                   received,
                   decoded,
                   operands,
                   computed,
                   payload,
                   out,
                   box,
                   intent,
                   entry,
                   session>>

\* recover_secret_share on a reordering of a share set
RecoverPermuted ==
    /\ pc = "recovered"
    /\ ValidShareSet(shares)
    /\ \E p \in Reorderings(shares) :
          /\ subset' = p
          /\ again' = recover_secret_share(p)
    /\ pc' = "recovered again"
    /\ UNCHANGED <<value, share, data, symbols, verdict, shares, target, derived,
                   recovered, corrupted, original, hit, params,
                   erasures, correction,
                   search,
                   codeword,
                   errors,
                   received,
                   decoded,
                   operands,
                   computed,
                   payload,
                   out,
                   box,
                   intent,
                   entry,
                   session>>

\* shares is a set P of exactly k shares and derived a further share D at an
\* index not used in P: a k-element subset of P plus D is interpolated at "s"
InterpolateSubset ==
    /\ pc = "interpolated"
    /\ ValidShareSet(shares)
    /\ Len(shares) = Threshold(shares[1])
    /\ LowerChar(target) \notin Indices(shares)
    /\ derived.ok
    /\ \E i \in 0..Len(shares) :
          /\ subset' = RemoveAt(Append(shares, derived), i)
          /\ again' = interpolate_at(subset', ChS)
    /\ pc' = "subset interpolated"
    /\ UNCHANGED <<value, share, data, symbols, verdict, shares, target, derived,
                   recovered, corrupted, original, hit, params,
                   erasures, correction,
                   search,
                   codeword,
                   errors,
                   received,
                   decoded,
                   operands,
                   computed,
                   payload,
                   out,
                   box,
                   intent,
                   entry,
                   session>>

SharesNext ==
    \/ Interpolate
    \/ Recover
    \/ InterpolatePermuted
    \/ RecoverPermuted
    \/ InterpolateSubset

SpecShares == SharesInit /\ [][SharesNext]_vars

\* C4: given k valid shares P with pairwise distinct indices, the same
\* threshold and identifier, and a share D derived at an index not used in P,
\* every k-element subset of P plus D interpolated at "s" returns the same
\* share as interpolating P at "s".
C4_AnySubsetRecoversSameSecret ==
    pc = "subset interpolated" =>
        /\ again.ok
        /\ again = interpolate_at(shares, ChS)

\* C5: interpolate_at and recover_secret_share applied to any permutation of a
\* valid share set return an identical result string.
C5_PermutationIdenticalString ==
    /\ pc = "interpolated again" => again = derived
    /\ pc = "recovered again" => again = recovered

\* the errors interpolation raises for other reasons than a duplicate index
OtherErrors ==
    CodexErrors \cup {ErrNoShares, ErrInvalidTarget, ErrSameLength, ErrNoSharesRecovery}

\* C6: whenever the share list contains two shares with the same share index,
\* interpolate_at and recover_secret_share fail with an error that identifies
\* the duplicate index, raised before interpolation; no share is returned.
C6_DuplicateIndexRejected ==
    /\ pc = "interpolated" /\ HasDuplicateIndex(shares) =>
          ~derived.ok /\ derived.err \notin OtherErrors
    /\ pc = "recovered" /\ HasDuplicateIndex(shares) =>
          ~recovered.ok /\ recovered.err \notin OtherErrors

\* C7: recover_secret_share raises Codex32InputError whenever fewer shares are
\* supplied than the threshold encoded in those shares.
C7_TooFewSharesRejected ==
    pc = "recovered" /\ Len(shares) > 0
        /\ (\A j \in 1..Len(shares) : Len(shares) < Threshold(shares[j])) =>
            ~recovered.ok /\ recovered.raised = "Codex32InputError"

\* C8: recover_secret_share raises Codex32InputError whenever the shares do not
\* all carry the same identifier and the same threshold digit, also when their
\* indices are pairwise distinct and their lengths equal.
C8_MismatchedHeaderRejected ==
    pc = "recovered" /\ ~SameHeader(shares) =>
        ~recovered.ok /\ recovered.raised = "Codex32InputError"

---------------------------------------------------------------------------
(* Correction: try_correct_errors and try_correct_with_erasures *)

\* valid 48-character strings: upper case, lower case, threshold 0
CorrectOriginals == <<VECTOR2_S, VECTOR3_A, VECTOR1, VECTOR2_A>>

\* how many of CorrectOriginals are used
NOriginals == 2

\* Python indices where a character is replaced
CorruptPositions == {8, 47}

\* the replacement characters "q" and "s"
CorruptChars == {113, 115}

\* the max_errors arguments
MaxErrorsArgs == {-1, 0, 1}

\* the erasure_positions arguments: none, one, two, out of range, too many
ErasureArgs ==
    {<< >>, <<8>>, <<47, 8>>, <<48>>, <<8, -1>>, <<8, 9, 10, 11, 12, 13, 14, 15, 16>>}

CorrectInit ==
    /\ pc = "start"
    /\ original \in {CorrectOriginals[i] :
                        i \in 1..Min(NOriginals, Len(CorrectOriginals))}
    /\ corrupted = None /\ hit = None /\ params = None /\ erasures = None
    /\ correction = None
    /\ session = None
    /\ entry = None
    /\ intent = None
    /\ box = None
    /\ out = None
    /\ payload = None
    /\ computed = None
    /\ operands = None
    /\ decoded = None
    /\ received = None
    /\ errors = None
    /\ codeword = None
    /\ search = None
    /\ value = None /\ share = None /\ data = None
    /\ symbols = None /\ verdict = None
    /\ shares = None /\ target = None /\ derived = None /\ subset = None
    /\ recovered = None /\ again = None

\* one character of the valid string is replaced by a different charset character
CorruptChar ==
    /\ pc = "start"
    /\ \E p \in CorruptPositions, c \in CorruptChars :
          /\ c # At(original, p)
          /\ hit' = [pos |-> p, ch |-> c]
          /\ corrupted' = Replace(original, p, c)
    /\ pc' = "input"
    /\ UNCHANGED <<value, share, data, symbols, verdict, shares, target, derived,
                   recovered, subset, again, original, params, erasures, correction,
                   search,
                   codeword,
                   errors,
                   received,
                   decoded,
                   operands,
                   computed,
                   payload,
                   out,
                   box,
                   intent,
                   entry,
                   session>>

\* other inputs: the valid string, with and without surrounding whitespace,
\* a 47-character string, whitespace only, the empty string, None
Present ==
    /\ pc = "start"
    /\ corrupted' \in {original, <<32>> \o original \o <<10>>,
                       Slice(original, 0, Len(original) - 1), <<32, 9>>, << >>,
                       NoneString}
    /\ hit' = [pos |-> -1, ch |-> 0]
    /\ pc' = "input"
    /\ UNCHANGED <<value, share, data, symbols, verdict, shares, target, derived,
                   recovered, subset, again, original, params, erasures, correction,
                   search,
                   codeword,
                   errors,
                   received,
                   decoded,
                   operands,
                   computed,
                   payload,
                   out,
                   box,
                   intent,
                   entry,
                   session>>

\* try_correct_errors(corrupted, max_errors, stop_on_first)
TryCorrectErrors ==
    /\ pc = "input"
    /\ \E m \in MaxErrorsArgs, stop \in BOOLEAN :
          /\ params' = [max_errors |-> m, stop_on_first |-> stop]
          /\ correction' = try_correct_errors(corrupted, m, stop)
    /\ pc' = "corrected"
    /\ UNCHANGED <<value, share, data, symbols, verdict, shares, target, derived,
                   recovered, subset, again, corrupted, original, hit, erasures,
                   search,
                   codeword,
                   errors,
                   received,
                   decoded,
                   operands,
                   computed,
                   payload,
                   out,
                   box,
                   intent,
                   entry,
                   session>>

\* try_correct_with_erasures(corrupted, erasure_positions)
TryCorrectWithErasures ==
    /\ pc = "input"
    /\ \E e \in ErasureArgs :
          /\ erasures' = e
          /\ correction' = try_correct_with_erasures(corrupted, e)
    /\ pc' = "erasures corrected"
    /\ UNCHANGED <<value, share, data, symbols, verdict, shares, target, derived,
                   recovered, subset, again, corrupted, original, hit, params,
                   search,
                   codeword,
                   errors,
                   received,
                   decoded,
                   operands,
                   computed,
                   payload,
                   out,
                   box,
                   intent,
                   entry,
                   session>>

CorrectNext ==
    \/ CorruptChar
    \/ Present
    \/ TryCorrectErrors
    \/ TryCorrectWithErasures

SpecCorrect == CorrectInit /\ [][CorrectNext]_vars

\* C9: every candidate returned by try_correct_errors or
\* try_correct_with_erasures has a corrected_string on which Codex32String
\* construction succeeds.
C9_CandidatesRevalidate ==
    pc \in {"corrected", "erasures corrected"} =>
        \A i \in 1..Len(correction.candidates) :
            Codex32String(correction.candidates[i].corrected_string).ok

\* both calls returned candidates: a one-error correction, and a correction
\* at two erasure positions
C9_Witness ==
    \/ /\ pc = "corrected"
       /\ correction.success
       /\ correction.candidates[1].error_count = 1
    \/ /\ pc = "erasures corrected"
       /\ correction.success
       /\ Len(erasures) = 2

\* C10: for every valid 48-character string, every position from 3 to 47 and
\* every replacement charset character different from the original,
\* try_correct_errors(corrupted, max_errors=1) succeeds with the original
\* string (ignoring case) among its candidates, recorded with error_count 1
\* and the corrupted position.
C10_SingleErrorFound ==
    pc = "corrected" /\ hit.pos >= 3 /\ hit.pos <= 47 /\ InCharset(hit.ch)
        /\ Len(original) = 48 /\ Codex32String(original).ok
        /\ params.max_errors = 1 =>
            /\ correction.success
            /\ \E i \in 1..Len(correction.candidates) :
                  LET c == correction.candidates[i]
                  IN  /\ Lower(c.corrected_string) = Lower(original)
                      /\ c.error_count = 1
                      /\ c.error_positions = <<hit.pos>>

---------------------------------------------------------------------------
(* Search: try_correct_errors, one pass of its loop per step *)

\* the inputs: valid strings (one padded), 48-character strings with one
\* symbol replaced (lower case, upper case, by a lower-case character in an
\* upper-case string), strings too short to be valid, blank and empty input
SearchInputs ==
    << VECTOR3_A,
       Replace(VECTOR3_A, 8, 113),
       <<ChM, ChS, Ch1, 50, 97>>,
       Replace(VECTOR2_S, 47, 81),
       <<32>> \o VECTOR2_S \o <<10>>,
       <<ChM, ChS, Ch1, 113>>,
       Replace(VECTOR2_S, 3, 113),
       <<32, 9>>,
       << >>,
       <<77, 83, 49, 48, 66>>,
       NoneString,
       Replace(VECTOR2_A, 20, 113) >>

\* how many of SearchInputs are used
NSearchInputs == 10

\* the max_errors arguments
SearchMaxErrors == {-1, 0, 1, 4, 7}

SearchInit ==
    /\ pc = "input"
    /\ corrupted \in {SearchInputs[i] : i \in 1..Min(NSearchInputs, Len(SearchInputs))}
    /\ original = None /\ hit = None /\ params = None /\ erasures = None
    /\ correction = None
    /\ session = None
    /\ entry = None
    /\ intent = None
    /\ box = None
    /\ out = None
    /\ payload = None
    /\ computed = None
    /\ operands = None
    /\ decoded = None
    /\ received = None
    /\ errors = None
    /\ codeword = None
    /\ search = None
    /\ value = None /\ share = None /\ data = None
    /\ symbols = None /\ verdict = None
    /\ shares = None /\ target = None /\ derived = None /\ subset = None
    /\ recovered = None /\ again = None

\* max_errors = min(max_errors, MAX_SUBSTITUTION_ERRORS), without the clamp
ClampMaxErrors_none(max_errors) == max_errors

\* max_errors = min(max_errors, MAX_SUBSTITUTION_ERRORS)
ClampMaxErrors(max_errors) == Min(max_errors, MAX_SUBSTITUTION_ERRORS)

\* try_correct_errors up to its loop: strip, the empty and the already-valid
\* returns, the clamp
SearchEnter ==
    /\ pc = "input"
    /\ \E m \in SearchMaxErrors, stop \in BOOLEAN :
          LET s == Strip(OrEmpty(corrupted))
          IN  /\ params' = [max_errors |-> m, stop_on_first |-> stop]
              /\ search' = [s |-> s, max_errors |-> ClampMaxErrors(m),
                            num_errors |-> 1, passes |-> << >>]
              /\ IF Len(s) = 0
                 THEN /\ correction' = CorrectionResult(FALSE, << >>, "Empty input string")
                      /\ pc' = "returned"
                 ELSE IF _validate_codex32(s)
                 THEN /\ correction' = CorrectionResult(TRUE,
                              <<CorrectionCandidate(s, s, 0, << >>, << >>)>>, None)
                      /\ pc' = "returned"
                 ELSE /\ correction' = correction
                      /\ pc' = "loop"
    /\ UNCHANGED <<value, share, data, symbols, verdict, shares, target, derived,
                   recovered, subset, again, corrupted, original, hit, erasures,
                   codeword,
                   errors,
                   received,
                   decoded,
                   operands,
                   computed,
                   payload,
                   out,
                   box,
                   intent,
                   entry,
                   session>>

\* the return of a pass that found candidates: the first one with
\* stop_on_first, all of them at the break otherwise
PassResult(found, stop_on_first) ==
    CorrectionResult(TRUE, IF stop_on_first THEN <<found[1]>> ELSE found, None)

\* one pass of "for num_errors in range(1, max_errors + 1)"
SearchPass ==
    /\ pc = "loop"
    /\ search.num_errors <= search.max_errors
    /\ LET found == CandidatesAt(search.s, search.num_errors)
       IN  /\ search' = [search EXCEPT !.num_errors = @ + 1,
                                       !.passes = Append(@, search.num_errors)]
           /\ IF Len(found) > 0
              THEN /\ correction' = PassResult(found, params.stop_on_first)
                   /\ pc' = "returned"
              ELSE /\ correction' = correction
                   /\ pc' = "loop"
    /\ UNCHANGED <<value, share, data, symbols, verdict, shares, target, derived,
                   recovered, subset, again, corrupted, original, hit, params,
                   erasures,
                   codeword,
                   errors,
                   received,
                   decoded,
                   operands,
                   computed,
                   payload,
                   out,
                   box,
                   intent,
                   entry,
                   session>>

\* the loop ran out without candidates
SearchExhausted ==
    /\ pc = "loop"
    /\ search.num_errors > search.max_errors
    /\ correction' = CorrectionResult(FALSE, << >>,
           "No valid correction found with up to " \o ToString(search.max_errors)
               \o " errors")
    /\ pc' = "returned"
    /\ UNCHANGED <<value, share, data, symbols, verdict, shares, target, derived,
                   recovered, subset, again, corrupted, original, hit, params,
                   erasures, search,
                   codeword,
                   errors,
                   received,
                   decoded,
                   operands,
                   computed,
                   payload,
                   out,
                   box,
                   intent,
                   entry,
                   session>>

SearchNext == SearchEnter \/ SearchPass \/ SearchExhausted

SpecSearch == SearchInit /\ [][SearchNext]_vars

\* the sets of n positions of the data part of s (Python indices >= 3)
RECURSIVE PositionSets(_, _)
PositionSets(s, n) ==
    IF n = 0 THEN {{}}
    ELSE {P \cup {p} : P \in PositionSets(s, n - 1), p \in 3..(Len(s) - 1)}
             \ PositionSets(s, n - 1)

\* the strings that differ from the lower-cased s by other charset characters
\* at exactly n data-part positions
Substitutions(s, n) ==
    UNION { { [q \in 1..Len(s) |-> IF (q - 1) \in P THEN f[q - 1] ELSE Lower(s)[q]] :
                f \in { g \in [P -> DOMAIN CHARSET_MAP] :
                          \A p \in P : g[p] # At(Lower(s), p) } }
            : P \in {Q \in PositionSets(s, n) : Cardinality(Q) = n} }

\* the substitutions of exactly n characters that validate
ValidSubstitutions(s, n) == {t \in Substitutions(s, n) : Codex32String(t).ok}

\* <<1, ..., n>>
UpTo(n) == [i \in 1..n |-> i]

\* C11: for an already valid input try_correct_errors returns exactly one
\* candidate with error_count 0 and runs no pass of the search; for an invalid
\* input the passes run are 1, 2, ... in order and never go beyond
\* min(max_errors, 4); all returned candidates have the error_count n of the
\* last pass run, which is the smallest count with a validating substitution
\* of exactly n data-part characters; without stop_on_first the candidates
\* are all validating substitutions at count n, with stop_on_first there is
\* exactly one; when nothing is returned no count up to the cap validates.
C11_SimplestExplanation ==
    pc = "returned" /\ Len(search.s) > 0 =>
        LET s == search.s
            cap == Min(params.max_errors, 4)
            cands == correction.candidates
            n == Len(search.passes)
            strings == {cands[i].corrected_string : i \in 1..Len(cands)}
            valid == IF n > 0 THEN ValidSubstitutions(s, n) ELSE {}
        IN  IF Codex32String(s).ok
            THEN /\ correction.success
                 /\ Len(cands) = 1
                 /\ cands[1].error_count = 0
                 /\ cands[1].corrected_string = s
                 /\ search.passes = << >>
            ELSE /\ search.passes = UpTo(n)
                 /\ n <= (IF cap > 0 THEN cap ELSE 0)
                 /\ \A m \in 1..(n - 1) : ValidSubstitutions(s, m) = {}
                 /\ IF Len(cands) > 0
                    THEN /\ correction.success
                         /\ \A i \in 1..Len(cands) : cands[i].error_count = n
                         /\ valid # {}
                         /\ IF params.stop_on_first
                            THEN /\ Len(cands) = 1
                                 /\ strings \subseteq valid
                            ELSE /\ strings = valid
                                 /\ Len(cands) = Cardinality(strings)
                    ELSE /\ ~correction.success
                         /\ n = (IF cap > 0 THEN cap ELSE 0)
                         /\ valid = {}

\* an invalid string with one wrong character, searched with max_errors = 7
\* and without stop_on_first: one pass, candidates at count 1
C11_Witness ==
    /\ pc = "returned"
    /\ Len(search.s) = 48
    /\ ~Codex32String(search.s).ok
    /\ params.max_errors = 7 /\ ~params.stop_on_first
    /\ correction.success
    /\ search.passes = <<1>>

---------------------------------------------------------------------------
(* Correction: the shape of the results *)

\* the input of the call is empty after "or ''" and strip()
BlankInput == Len(Strip(OrEmpty(corrupted))) = 0

\* C12: try_correct_errors and try_correct_with_erasures return a result for
\* every input; success holds exactly when the candidate list is non-empty;
\* a failure has no candidates and a non-empty error_message; empty,
\* whitespace-only and None input, more than 8 erasure positions and erasure
\* positions outside the string are failures.
C12_StructuredFailure ==
    pc \in {"corrected", "erasures corrected"} =>
        /\ correction.success \in BOOLEAN
        /\ correction.success <=> Len(correction.candidates) > 0
        /\ ~correction.success =>
              /\ correction.candidates = << >>
              /\ correction.error_message \notin {None, ""}
        /\ BlankInput => ~correction.success
        /\ pc = "erasures corrected" /\ Len(erasures) > 8 => ~correction.success
        /\ pc = "erasures corrected"
              /\ (\E j \in 1..Len(erasures) :
                     erasures[j] < 0 \/ erasures[j] >= Len(Strip(OrEmpty(corrupted))))
              => ~correction.success

\* a failure of the search on a string that is not blank: no correction
\* exists within max_errors
C12_Witness ==
    /\ pc = "corrected"
    /\ ~BlankInput
    /\ params.max_errors = 1
    /\ ~correction.success
    /\ correction.error_message = "No valid correction found with up to 1 errors"

\* the Python indices at which two strings of the same length differ
ChangedPositions(a, b) == {p \in 0..(Len(a) - 1) : At(a, p) # At(b, p)}

\* C13: every candidate returned by try_correct_errors or
\* try_correct_with_erasures has a corrected_string of the length of its
\* original_string that differs from it at exactly the positions listed in
\* error_positions; error_details holds, for each of those positions, the
\* character of original_string and the character of corrected_string there;
\* error_count is the number of changed positions.
C13_CandidateDescribesChange ==
    pc \in {"corrected", "erasures corrected"} =>
        \A i \in 1..Len(correction.candidates) :
            LET c == correction.candidates[i]
            IN  /\ Len(c.corrected_string) = Len(c.original_string)
                /\ ChangedPositions(c.original_string, c.corrected_string)
                       = {c.error_positions[j] : j \in 1..Len(c.error_positions)}
                /\ {c.error_details[j] : j \in 1..Len(c.error_details)}
                       = {<<p, At(c.original_string, p), At(c.corrected_string, p)>> :
                             p \in ChangedPositions(c.original_string, c.corrected_string)}
                /\ c.error_count
                       = Cardinality(ChangedPositions(c.original_string, c.corrected_string))

---------------------------------------------------------------------------
(* gf32.py: GF(32) arithmetic with log and exp tables *)

\* the exceptions, as results no field element equals
ZeroDivisionError == -2
IndexError == -3

\* the call raised instead of returning
Raised(x) == x \in {ZeroDivisionError, IndexError}

\* list[i] for a Python index i: negative indices count from the end,
\* indices outside the list raise
PyIndex(list, i) ==
    IF Raised(i) THEN i
    ELSE IF i >= 0 /\ i < Len(list) THEN list[i + 1]
    ELSE IF i < 0 /\ i >= -Len(list) THEN list[Len(list) + i + 1]
    ELSE IndexError

LOG ==
    <<-1, 0, 1, 18, 2, 5, 19, 11, 3, 29, 6, 27, 20, 8, 12, 23,
      4, 10, 30, 17, 7, 22, 28, 26, 21, 25, 9, 16, 13, 14, 24, 15>>

\* a table without the wrap-around entries
EXP_short ==
    <<1, 2, 4, 8, 16, 5, 10, 20, 13, 26, 17, 7, 14, 28, 29, 31,
      27, 19, 3, 6, 12, 24, 21, 15, 30, 25, 23, 11, 22, 9, 18>>

EXP ==
    <<1, 2, 4, 8, 16, 5, 10, 20, 13, 26, 17, 7, 14, 28, 29, 31,
      27, 19, 3, 6, 12, 24, 21, 15, 30, 25, 23, 11, 22, 9, 18,
      1, 2, 4, 8, 16, 5, 10, 20, 13, 26, 17, 7, 14, 28, 29, 31,
      27, 19, 3, 6, 12, 24, 21, 15, 30, 25, 23, 11, 22, 9, 18>>

\* a ^ b
gf32_add(a, b) ==
    IF Raised(a) THEN a ELSE IF Raised(b) THEN b ELSE Xor(a, b)

gf32_sub(a, b) ==
    IF Raised(a) THEN a ELSE IF Raised(b) THEN b ELSE Xor(a, b)

\* the sum of two raised-or-not integers
Plus(x, y) == IF Raised(x) THEN x ELSE IF Raised(y) THEN y ELSE x + y

gf32_mul(a, b) ==
    IF Raised(a) THEN a
    ELSE IF Raised(b) THEN b
    ELSE IF a = 0 \/ b = 0 THEN 0
    ELSE PyIndex(EXP, Plus(PyIndex(LOG, a), PyIndex(LOG, b)))

gf32_div(a, b) ==
    IF Raised(a) THEN a
    ELSE IF Raised(b) THEN b
    ELSE IF b = 0 THEN ZeroDivisionError
    ELSE IF a = 0 THEN 0
    ELSE LET la == PyIndex(LOG, a)
             lb == PyIndex(LOG, b)
         IN  IF Raised(la) THEN la
             ELSE IF Raised(lb) THEN lb
             ELSE PyIndex(EXP, (la - lb) % 31)

\* inv(a) read off the table at log(a), the exponent not negated
gf32_inv_same(a) ==
    IF Raised(a) THEN a
    ELSE IF a = 0 THEN ZeroDivisionError
    ELSE PyIndex(EXP, PyIndex(LOG, a))

gf32_inv(a) ==
    IF Raised(a) THEN a
    ELSE IF a = 0 THEN ZeroDivisionError
    ELSE LET la == PyIndex(LOG, a)
         IN  IF Raised(la) THEN la ELSE PyIndex(EXP, 31 - la)

\* gf32_pow after its early returns, on the base and exponent in use
PowTable(a, n) ==
    IF Raised(a) THEN a
    ELSE LET la == PyIndex(LOG, a)
         IN  IF Raised(la) THEN la ELSE PyIndex(EXP, (la * n) % 31)

gf32_pow(a, n) ==
    IF Raised(a) THEN a
    ELSE IF a = 0 THEN (IF n > 0 THEN 0 ELSE 1)
    ELSE IF n = 0 THEN 1
    ELSE IF n < 0 THEN PowTable(gf32_inv(a), -n)
    ELSE PowTable(a, n)

---------------------------------------------------------------------------
(* bch_decoder.py: syndromes, Berlekamp-Massey, Chien search, Forney *)

MAX_ERRORS == 4
BCH_ROOTS_START == 1
BCH_ROOTS_COUNT == 8

\* the CorrectionResult of bch_decoder.py
BCHCorrectionResult(success, corrected_data, error_positions, error_values, error_message) ==
    [success |-> success, corrected_data |-> corrected_data,
     error_positions |-> error_positions, error_values |-> error_values,
     error_message |-> error_message]

\* s = gf32_add(s, term) over terms[lo..hi], as the sum of its two halves
\* (gf32_add is associative and the terms keep their order)
RECURSIVE GfSumRange(_, _, _)
GfSumRange(terms, lo, hi) ==
    IF lo > hi THEN 0
    ELSE IF lo = hi THEN gf32_add(0, terms[lo])
    ELSE LET mid == (lo + hi) \div 2
         IN  gf32_add(GfSumRange(terms, lo, mid), GfSumRange(terms, mid + 1, hi))

\* s = gf32_add(s, term) over the terms, from s = 0
GfSum(terms) == GfSumRange(terms, 1, Len(terms))

\* EXP[j % 31] if j % 31 != 0 else 1
AlphaPow(j) == IF j % 31 # 0 THEN PyIndex(EXP, j % 31) ELSE 1

\* the sum of coef * x^i over the non-zero coefficients of poly
PolyEval(poly, x) ==
    GfSum(ListOf([q \in 1..Len(poly) |->
        IF poly[q] # 0 THEN gf32_mul(poly[q], gf32_pow(x, q - 1)) ELSE 0]))

compute_syndromes(vec, num_syndromes) ==
    ListOf([k \in 1..num_syndromes |->
        PolyEval(vec, AlphaPow(BCH_ROOTS_START + k - 1))])

syndromes_are_zero(syndromes) == \A k \in 1..Len(syndromes) : syndromes[k] = 0

\* d = syndromes[i]; for j in range(1, L + 1): ... , from j on
RECURSIVE Discrepancy(_, _, _, _, _, _)
Discrepancy(d, syndromes, C, L, i, j) ==
    IF j > L THEN d
    ELSE Discrepancy(IF j < Len(C) /\ (i - j) >= 0
                     THEN gf32_add(d, gf32_mul(At(C, j), At(syndromes, i - j)))
                     ELSE d,
                     syndromes, C, L, i, j + 1)

\* C(x) = C(x) - coef * x^m * B(x), with C extended to len(B) + m
UpdateC(C, B, m, coef) ==
    LET n == IF Len(C) < Len(B) + m THEN Len(B) + m ELSE Len(C)
    IN  ListOf([q \in 1..n |->
            LET old == IF q <= Len(C) THEN C[q] ELSE 0
            IN  IF q - 1 >= m /\ q - 1 - m < Len(B)
                THEN gf32_add(old, gf32_mul(coef, At(B, q - 1 - m)))
                ELSE old])

\* one iteration of the loop of berlekamp_massey on st = [C, B, L, m, b]
BMStep(st, syndromes, i) ==
    LET d == Discrepancy(At(syndromes, i), syndromes, st.C, st.L, i, 1)
    IN  IF d = 0 THEN [st EXCEPT !.m = @ + 1]
        ELSE IF 2 * st.L <= i
        THEN [C |-> UpdateC(st.C, st.B, st.m, gf32_div(d, st.b)),
              B |-> st.C, L |-> i + 1 - st.L, m |-> 1, b |-> d]
        ELSE [st EXCEPT !.C = UpdateC(st.C, st.B, st.m, gf32_div(d, st.b)),
                        !.m = @ + 1]

\* for i in range(n), from i on
RECURSIVE BMLoop(_, _, _)
BMLoop(st, syndromes, i) ==
    IF i >= Len(syndromes) THEN st
    ELSE BMLoop(BMStep(st, syndromes, i), syndromes, i + 1)

berlekamp_massey(syndromes) ==
    BMLoop([C |-> <<1>>, B |-> <<1>>, L |-> 0, m |-> 1, b |-> 1], syndromes, 0).C

\* EXP[(31 - (j % 31)) % 31] if j % 31 != 0 else 1
AlphaNeg(j) == IF j % 31 # 0 THEN PyIndex(EXP, (31 - (j % 31)) % 31) ELSE 1

\* the positions j in range(n) with Lambda(alpha^{-j}) = 0, in order
ChienRoots(error_locator, n) ==
    SelectSeq(ListOf([q \in 1..n |-> q - 1]),
              LAMBDA j : PolyEval(error_locator, AlphaNeg(j)) = 0)

\* the loop appends the roots in order and breaks when their number reaches
\* num_errors: the first num_errors roots, or all of them when there are
\* fewer or num_errors is 0
chien_search(error_locator, n) ==
    LET roots == ChienRoots(error_locator, n)
        num_errors == Len(error_locator) - 1
    IN  IF num_errors >= 1 /\ Len(roots) > num_errors
        THEN SubSeq(roots, 1, num_errors)
        ELSE roots

\* Omega(x) = S(x) * Lambda(x) mod x^{2t}
Omega(syndromes, error_locator) ==
    ListOf([k \in 1..Len(syndromes) |->
        GfSum(ListOf([i \in 1..k |->
            IF k - i + 1 <= Len(error_locator)
            THEN gf32_mul(syndromes[i], error_locator[k - i + 1])
            ELSE 0]))])

\* the formal derivative: the odd-power coefficients, zeros in between
LambdaPrime(error_locator) ==
    ListOf([i \in 1..(Len(error_locator) - 1) |->
        IF i % 2 = 1 THEN At(error_locator, i) ELSE 0])

\* the magnitude forney_algorithm computes for one position
Magnitude(omega, lambda_prime, pos) ==
    LET X_i == AlphaPow(pos)
        X_i_inv == gf32_inv(X_i)
        omega_val == PolyEval(omega, X_i_inv)
        lambda_prime_val == PolyEval(lambda_prime, X_i_inv)
    IN  IF lambda_prime_val # 0
        THEN gf32_mul(X_i, gf32_div(omega_val, lambda_prime_val))
        ELSE 0

\* the dict position -> magnitude
forney_algorithm(syndromes, error_locator, error_positions) ==
    [pos \in {error_positions[k] : k \in 1..Len(error_positions)} |->
        Magnitude(Omega(syndromes, error_locator), LambdaPrime(error_locator), pos)]

\* corrected_data[pos] = gf32_add(corrected_data[pos], magnitude) for the
\* non-zero magnitudes
ApplyCorrections(vec, error_values) ==
    ListOf([q \in 1..Len(vec) |->
        IF (q - 1) \in DOMAIN error_values /\ error_values[q - 1] # 0
        THEN gf32_add(vec[q], error_values[q - 1])
        ELSE vec[q]])

\* decode_bch from step 5 on, without the verification of step 9
DecodeLocated_unverified(vec, syndromes, error_locator, error_positions) ==
    IF Len(error_positions) # Len(error_locator) - 1
    THEN BCHCorrectionResult(FALSE, None, None, None,
             "Chien search found " \o ToString(Len(error_positions))
                 \o " positions, expected " \o ToString(Len(error_locator) - 1))
    ELSE LET error_values == forney_algorithm(syndromes, error_locator, error_positions)
         IN  BCHCorrectionResult(TRUE, ApplyCorrections(vec, error_values),
                                 error_positions, error_values, None)

\* decode_bch from step 5 on, with the locator found
DecodeLocated(vec, syndromes, error_locator, error_positions) ==
    IF Len(error_positions) # Len(error_locator) - 1
    THEN BCHCorrectionResult(FALSE, None, None, None,
             "Chien search found " \o ToString(Len(error_positions))
                 \o " positions, expected " \o ToString(Len(error_locator) - 1))
    ELSE LET error_values == forney_algorithm(syndromes, error_locator, error_positions)
             corrected_data == ApplyCorrections(vec, error_values)
         IN  IF ~syndromes_are_zero(compute_syndromes(corrected_data, BCH_ROOTS_COUNT))
             THEN BCHCorrectionResult(FALSE, None, None, None,
                      "Correction verification failed: syndromes still non-zero")
             ELSE BCHCorrectionResult(TRUE, corrected_data, error_positions,
                                      error_values, None)

\* decode_bch from step 3 on, with the syndromes computed
DecodeSyndromes(vec, max_errors, syndromes, error_locator) ==
    IF Len(error_locator) - 1 > max_errors
    THEN BCHCorrectionResult(FALSE, None, None, None,
             "Too many errors detected (" \o ToString(Len(error_locator) - 1)
                 \o "), max correctable is " \o ToString(max_errors))
    ELSE IF Len(error_locator) - 1 = 0
    THEN BCHCorrectionResult(FALSE, None, None, None,
             "Decoding failure: non-zero syndromes but no error locator")
    ELSE DecodeLocated(vec, syndromes, error_locator,
                       chien_search(error_locator, Len(vec)))

decode_bch(vec, max_errors) ==
    IF syndromes_are_zero(compute_syndromes(vec, BCH_ROOTS_COUNT))
    THEN BCHCorrectionResult(TRUE, vec, << >>, << >>, None)
    ELSE DecodeSyndromes(vec, max_errors, compute_syndromes(vec, BCH_ROOTS_COUNT),
                         berlekamp_massey(compute_syndromes(vec, BCH_ROOTS_COUNT)))

---------------------------------------------------------------------------
(* Decoding: a vector, an error pattern laid over it, decode_bch *)

\* char_to_int(c): CHARSET_REV[c.lower()]
char_to_int(c) == CHARSET_MAP[LowerChar(c)]

\* string_to_data(s): [char_to_int(c) for c in s[3:].lower()]
string_to_data(s) ==
    LET data_part == Lower(Slice(s, 3, Len(s)))
    IN  ListOf([i \in 1..Len(data_part) |-> char_to_int(data_part[i])])

\* [0] * n
Zeros(n) == [i \in 1..n |-> 0]

\* the product of (x + alpha^j) for j = 1..8, constant term first, then zeros
\* up to 45 symbols: a vector with the eight roots the syndromes evaluate at
GeneratorWord == <<5, 18, 26, 2, 6, 15, 21, 8, 1>> \o Zeros(36)

\* the vectors errors are laid over: test_bch.py takes [0] * 45 and the data
\* parts of VALID_VECTORS
BCHWords ==
    { Zeros(45),
      GeneratorWord,
      [Zeros(45) EXCEPT ![4] = 5, ![35] = 5],
      Zeros(31),
      string_to_data(VECTOR2_S),
      string_to_data(VECTOR3_A) }

\* error patterns, each a list of <<position, magnitude>>: none, one to four
\* errors, five and six errors, positions on both sides of 31
ErrorPatterns ==
    << << >>,
       << <<10, 7>> >>,
       << <<0, 7>> >>,
       << <<40, 7>> >>,
       << <<5, 3>>, <<20, 11>> >>,
       << <<3, 5>>, <<15, 9>>, <<27, 13>>, <<40, 7>> >>,
       << <<2, 3>>, <<10, 7>>, <<22, 11>>, <<35, 5>>, <<42, 9>> >>,
       << <<0, 1>>, <<1, 2>>, <<32, 2>>, <<2, 3>>, <<33, 3>> >>,
       << <<0, 1>>, <<31, 1>> >>,
       << <<5, 3>>, <<20, 11>>, <<30, 1>> >>,
       << <<0, 1>>, <<31, 2>>, <<5, 3>>, <<6, 4>>, <<7, 5>> >>,
       << <<1, 1>>, <<2, 2>>, <<3, 3>>, <<4, 4>>, <<5, 5>>, <<6, 6>> >>,
       << <<31, 7>> >>,
       << <<44, 31>> >> >>

\* how many of ErrorPatterns are laid over the vectors
NPatterns == 13

\* the max_errors handed to decode_bch (its default is MAX_ERRORS)
BCHMaxErrors == {MAX_ERRORS, 2, 1, 0}

\* the positions of an error pattern
PatternPositions(e) == {e[i][1] : i \in 1..Len(e)}

\* introduce_errors: corrupted[pos] = gf32_add(corrupted[pos], val), in turn
RECURSIVE introduce_errors(_, _)
introduce_errors(vec, e) ==
    IF Len(e) = 0 THEN vec
    ELSE LET pos == e[1][1]
             val == e[1][2]
         IN  introduce_errors(Replace(vec, pos, gf32_add(At(vec, pos), val)),
                              Tail(e))

BCHInit ==
    /\ pc = "start"
    /\ codeword \in BCHWords
    /\ errors = None /\ received = None /\ decoded = None /\ params = None
    /\ operands = None /\ computed = None
    /\ corrupted = None /\ original = None /\ hit = None /\ erasures = None
    /\ correction = None /\ search = None
    /\ session = None
    /\ entry = None
    /\ intent = None
    /\ box = None
    /\ out = None
    /\ payload = None
    /\ value = None /\ share = None /\ data = None
    /\ symbols = None /\ verdict = None
    /\ shares = None /\ target = None /\ derived = None /\ subset = None
    /\ recovered = None /\ again = None

\* errors are laid over the vector
BCHCorrupt ==
    /\ pc = "start"
    /\ \E i \in 1..Min(NPatterns, Len(ErrorPatterns)) :
          /\ \A p \in PatternPositions(ErrorPatterns[i]) : p < Len(codeword)
          /\ errors' = ErrorPatterns[i]
          /\ received' = introduce_errors(codeword, ErrorPatterns[i])
    /\ pc' = "received"
    /\ UNCHANGED <<value, share, data, symbols, verdict, shares, target, derived,
                   recovered, subset, again, corrupted, original, hit, params,
                   erasures, correction, search, codeword, decoded,
                   operands,
                   computed,
                   payload,
                   out,
                   box,
                   intent,
                   entry,
                   session>>

\* decode_bch(received, max_errors); none of its steps assigns to its argument
BCHDecode ==
    /\ pc = "received"
    /\ \E m \in BCHMaxErrors :
          /\ params' = [max_errors |-> m]
          /\ decoded' = decode_bch(received, m)
    /\ pc' = "bch decoded"
    /\ UNCHANGED <<value, share, data, symbols, verdict, shares, target, derived,
                   recovered, subset, again, corrupted, original, hit,
                   erasures, correction, search, codeword, errors, received,
                   operands,
                   computed,
                   payload,
                   out,
                   box,
                   intent,
                   entry,
                   session>>

BCHNext == BCHCorrupt \/ BCHDecode

SpecBCH == BCHInit /\ [][BCHNext]_vars


\* all 8 syndromes of the vector are zero
ZeroSyndromes(vec) ==
    \A k \in 1..BCH_ROOTS_COUNT : compute_syndromes(vec, BCH_ROOTS_COUNT)[k] = 0

\* the elements of a list, as a set
Elements(list) == {list[i] : i \in 1..Len(list)}

\* C14: for a vector of at most 45 symbols whose 8 syndromes are all zero and
\* an error pattern of 1 to 4 nonzero magnitudes at distinct positions,
\* decode_bch of the corrupted vector returns success=True, corrected_data
\* equal to the vector, error_positions equal to the positions of the pattern
\* and error_values equal to its magnitudes.
C14_CorrectsUpToFour ==
    (/\ pc = "bch decoded"
     /\ params.max_errors = MAX_ERRORS
     /\ Len(codeword) <= 45
     /\ ZeroSyndromes(codeword)
     /\ Len(errors) >= 1 /\ Len(errors) <= 4)
    => /\ decoded.success
       /\ decoded.corrected_data = codeword
       /\ Elements(decoded.error_positions) = PatternPositions(errors)
       /\ Len(decoded.error_positions) = Len(errors)
       /\ \A i \in 1..Len(errors) :
             /\ errors[i][1] \in DOMAIN decoded.error_values
             /\ decoded.error_values[errors[i][1]] = errors[i][2]


\* C15: decode_bch never returns an unverified result. When it returns
\* success=True the syndromes of corrected_data are all zero, corrected_data
\* is as long as the input and differs from it in at most max_errors
\* positions, all of them in error_positions; when it returns success=False
\* corrected_data is absent and the input vector is what it was before the call.
C15_NeverUnverified ==
    pc = "bch decoded" =>
       IF decoded.success
       THEN /\ ZeroSyndromes(decoded.corrected_data)
            /\ Len(decoded.corrected_data) = Len(received)
            /\ ChangedPositions(received, decoded.corrected_data)
                   \subseteq Elements(decoded.error_positions)
            /\ Cardinality(ChangedPositions(received, decoded.corrected_data))
                   <= params.max_errors
       ELSE /\ decoded.corrected_data = None
            /\ received = introduce_errors(codeword, errors)

\* decode_bch changed a symbol of a vector with non-zero syndromes and
\* returned success
C15_Witness ==
    /\ pc = "bch decoded"
    /\ ~ZeroSyndromes(received)
    /\ decoded.success
    /\ Cardinality(ChangedPositions(received, decoded.corrected_data)) = 1


\* C16: a data-part symbol vector is accepted by ms32_verify_checksum if and
\* only if its 8 syndromes (at alpha^1..alpha^8) are all zero; in particular
\* every valid codex32 codeword has all-zero syndromes.
C16_SyndromeZeroIffChecksum ==
    pc = "received" => (ms32_verify_checksum(received) <=> ZeroSyndromes(received))


\* C17: for a zero-syndrome vector of 45 symbols corrupted with nonzero
\* magnitudes at 5 distinct positions, the Berlekamp-Massey locator has degree
\* greater than 4 or Chien search finds a number of roots different from that
\* degree, and decode_bch returns success=False.
C17_FiveErrorsReported ==
    (/\ pc = "bch decoded"
     /\ params.max_errors = MAX_ERRORS
     /\ Len(codeword) = 45
     /\ ZeroSyndromes(codeword)
     /\ Len(errors) = 5)
    => /\ ~decoded.success
       /\ LET error_locator ==
                  berlekamp_massey(compute_syndromes(received, BCH_ROOTS_COUNT))
          IN  \/ Len(error_locator) - 1 > MAX_ERRORS
              \/ Len(chien_search(error_locator, Len(received)))
                     # Len(error_locator) - 1


---------------------------------------------------------------------------
(* Field: the operations of gf32.py on every pair of elements *)

\* the elements of GF(32)
Field == 0..31

\* exponents run over -MaxExponent..MaxExponent
MaxExponent == 31

FieldInit ==
    /\ pc = "start"
    /\ operands \in [a : Field, b : Field]
    /\ computed = None
    /\ codeword = None /\ errors = None /\ received = None /\ decoded = None
    /\ params = None
    /\ corrupted = None /\ original = None /\ hit = None /\ erasures = None
    /\ correction = None /\ search = None
    /\ session = None
    /\ entry = None
    /\ intent = None
    /\ box = None
    /\ out = None
    /\ payload = None
    /\ value = None /\ share = None /\ data = None
    /\ symbols = None /\ verdict = None
    /\ shares = None /\ target = None /\ derived = None /\ subset = None
    /\ recovered = None /\ again = None

\* gf32_add and gf32_mul on a, b and a third element c
FieldMultiply ==
    /\ pc = "start"
    /\ \E c \in Field :
         LET a == operands.a
             b == operands.b
         IN  computed' =
                 [c |-> c,
                  add_ab |-> gf32_add(a, b),
                  mul_ab |-> gf32_mul(a, b),
                  mul_ba |-> gf32_mul(b, a),
                  mul_ab_c |-> gf32_mul(gf32_mul(a, b), c),
                  mul_a_bc |-> gf32_mul(a, gf32_mul(b, c)),
                  mul_a_sum |-> gf32_mul(a, gf32_add(b, c)),
                  sum_mul |-> gf32_add(gf32_mul(a, b), gf32_mul(a, c)),
                  mul_a_1 |-> gf32_mul(a, 1),
                  mul_a_0 |-> gf32_mul(a, 0)]
    /\ pc' = "multiplied"
    /\ UNCHANGED <<value, share, data, symbols, verdict, shares, target, derived,
                   recovered, subset, again, corrupted, original, hit, params,
                   erasures, correction, search, codeword, errors, received,
                   decoded, operands,
                   payload,
                   out,
                   box,
                   intent,
                   entry,
                   session>>

\* gf32_inv and gf32_div on a and b; a call made with the exception of an
\* earlier call stands for the statement not being reached
FieldDivide ==
    /\ pc = "start"
    /\ LET a == operands.a
           b == operands.b
       IN  computed' =
               [inv_a |-> gf32_inv(a),
                mul_a_inv |-> gf32_mul(a, gf32_inv(a)),
                div_ab |-> gf32_div(a, b),
                mul_a_invb |-> gf32_mul(a, gf32_inv(b)),
                mul_div_b |-> gf32_mul(gf32_div(a, b), b)]
    /\ pc' = "divided"
    /\ UNCHANGED <<value, share, data, symbols, verdict, shares, target, derived,
                   recovered, subset, again, corrupted, original, hit, params,
                   erasures, correction, search, codeword, errors, received,
                   decoded, operands,
                   payload,
                   out,
                   box,
                   intent,
                   entry,
                   session>>

\* gf32_pow(a, n)
FieldPower ==
    /\ pc = "start"
    /\ \E n \in (-MaxExponent)..MaxExponent :
          computed' = [n |-> n, pow |-> gf32_pow(operands.a, n)]
    /\ pc' = "powered"
    /\ UNCHANGED <<value, share, data, symbols, verdict, shares, target, derived,
                   recovered, subset, again, corrupted, original, hit, params,
                   erasures, correction, search, codeword, errors, received,
                   decoded, operands,
                   payload,
                   out,
                   box,
                   intent,
                   entry,
                   session>>

FieldNext == FieldMultiply \/ FieldDivide \/ FieldPower

SpecField == FieldInit /\ [][FieldNext]_vars

\* C18: for all a, b, c in 0..31: gf32_add(a, b) is a XOR b; gf32_mul is
\* commutative and associative and distributes over gf32_add; gf32_mul(a, 1)
\* is a and gf32_mul(a, 0) is 0; every result lies in 0..31, no table index
\* being out of range.
C18_FieldAxioms ==
    pc = "multiplied" =>
       /\ computed.add_ab = Xor(operands.a, operands.b)
       /\ computed.mul_ab = computed.mul_ba
       /\ computed.mul_ab_c = computed.mul_a_bc
       /\ computed.mul_a_sum = computed.sum_mul
       /\ computed.mul_a_1 = operands.a
       /\ computed.mul_a_0 = 0
       /\ \A r \in {computed.add_ab, computed.mul_ab, computed.mul_ba,
                    computed.mul_ab_c, computed.mul_a_bc, computed.mul_a_sum,
                    computed.sum_mul, computed.mul_a_1, computed.mul_a_0} :
             r \in Field

\* three non-zero elements whose products read the second half of EXP
C18_Witness ==
    /\ pc = "multiplied"
    /\ operands.a # 0 /\ operands.b # 0 /\ computed.c # 0
    /\ operands.a # operands.b /\ operands.b # computed.c
    /\ PyIndex(LOG, operands.a) + PyIndex(LOG, operands.b) >= 31
    /\ computed.mul_ab_c = computed.mul_a_bc
    /\ computed.mul_a_sum = computed.sum_mul


\* C19: for every nonzero a, gf32_mul(a, gf32_inv(a)) is 1 and gf32_pow(a, 31)
\* is 1; for every a and every nonzero b, gf32_div(a, b) is
\* gf32_mul(a, gf32_inv(b)) and gf32_mul(gf32_div(a, b), b) is a.
C19_InverseAndDivision ==
    /\ (pc = "divided" /\ operands.a # 0) => computed.mul_a_inv = 1
    /\ (pc = "powered" /\ operands.a # 0 /\ computed.n = 31) => computed.pow = 1
    /\ (pc = "divided" /\ operands.b # 0) =>
           /\ computed.div_ab = computed.mul_a_invb
           /\ computed.mul_div_b = operands.a

\* a quotient of two different non-zero elements, neither of them 1
C19_Witness ==
    /\ pc = "divided"
    /\ operands.a > 1 /\ operands.b > 1 /\ operands.a # operands.b
    /\ computed.inv_a \in Field \ {0, 1, operands.a}
    /\ computed.div_ab \in Field \ {0, 1}
    /\ computed.mul_div_b = operands.a

\* C20: gf32_div(a, 0) for every a, gf32_inv(0), and gf32_pow(0, n) for every
\* negative n all fail with the division-by-zero error instead of returning
\* a field element.
C20_ZeroNeverInverted ==
    /\ (pc = "divided" /\ operands.b = 0) => computed.div_ab = ZeroDivisionError
    /\ (pc = "divided" /\ operands.a = 0) => computed.inv_a = ZeroDivisionError
    /\ (pc = "powered" /\ operands.a = 0 /\ computed.n < 0) =>
           computed.pow = ZeroDivisionError


---------------------------------------------------------------------------
(* Payload: _payload_to_bytes on symbol sequences *)

\* every sequence of at most MaxPayloadLen symbols is converted
MaxPayloadLen == 2

\* how many patterned sequences of each longer length are converted
NPayloadSeeds == 3

\* the longer lengths: 26 and 52 symbols are the payloads of 48- and
\* 74-character strings; 8 symbols fill 5 bytes with no bit left over
PayloadLens == {8, 26, 27, 52}

\* the sequences of n symbols
RECURSIVE SymbolSeqs(_)
SymbolSeqs(n) ==
    IF n = 0 THEN {<< >>}
    ELSE {Append(s, v) : s \in SymbolSeqs(n - 1), v \in 0..31}

\* a sequence of n symbols with a given last symbol
PatternedPayload(n, seed, last) ==
    [i \in 1..n |-> IF i = n THEN last ELSE (i * (2 * seed + 1) + 7 * seed) % 32]

PayloadInputs ==
    UNION {SymbolSeqs(n) : n \in 0..MaxPayloadLen}
    \cup {PatternedPayload(n, seed, last) :
             n \in PayloadLens, seed \in 1..NPayloadSeeds, last \in 0..31}

PayloadInit ==
    /\ pc = "start"
    /\ payload \in PayloadInputs
    /\ out = None
    /\ operands = None /\ computed = None
    /\ codeword = None /\ errors = None /\ received = None /\ decoded = None
    /\ params = None
    /\ corrupted = None /\ original = None /\ hit = None /\ erasures = None
    /\ correction = None /\ search = None
    /\ session = None
    /\ entry = None
    /\ intent = None
    /\ box = None
    /\ value = None /\ share = None /\ data = None
    /\ symbols = None /\ verdict = None
    /\ shares = None /\ target = None /\ derived = None /\ subset = None
    /\ recovered = None /\ again = None

\* _payload_to_bytes(payload)
PayloadToBytes ==
    /\ pc = "start"
    /\ out' = _payload_to_bytes(payload)
    /\ pc' = "converted"
    /\ UNCHANGED <<value, share, data, symbols, verdict, shares, target, derived,
                   recovered, subset, again, corrupted, original, hit, params,
                   erasures, correction, search, codeword, errors, received,
                   decoded, operands, computed, payload,
                   box,
                   intent,
                   entry,
                   session>>

PayloadNext == PayloadToBytes

SpecPayload == PayloadInit /\ [][PayloadNext]_vars

\* bit k of the MSB-first concatenation of the 5-bit symbols
ConcatBit(seq, k) == Bit(seq[(k \div 5) + 1], 4 - (k % 5))

\* bits 8i..8i+7 of that concatenation, as a byte
ConcatByte(seq, i) ==
    128 * ConcatBit(seq, 8 * i) + 64 * ConcatBit(seq, 8 * i + 1)
    + 32 * ConcatBit(seq, 8 * i + 2) + 16 * ConcatBit(seq, 8 * i + 3)
    + 8 * ConcatBit(seq, 8 * i + 4) + 4 * ConcatBit(seq, 8 * i + 5)
    + 2 * ConcatBit(seq, 8 * i + 6) + ConcatBit(seq, 8 * i + 7)

\* C21: _payload_to_bytes on n symbols returns exactly floor(5n/8) bytes, byte
\* i being bits 8i..8i+7 of the MSB-first concatenation of the symbols; the
\* trailing 5n mod 8 bits are dropped whatever their value: 26 symbols give
\* 16 bytes and 52 symbols give 32 bytes.
C21_PayloadBytes ==
    pc = "converted" =>
       /\ Len(out) = (5 * Len(payload)) \div 8
       /\ \A i \in 0..(Len(out) - 1) : At(out, i) = ConcatByte(payload, i)
       /\ Len(payload) = 26 => Len(out) = 16
       /\ Len(payload) = 52 => Len(out) = 32

\* 26 symbols whose 2 trailing bits are both set, converted to 16 bytes
C21_Witness ==
    /\ pc = "converted"
    /\ Len(payload) = 26
    /\ payload[26] % 4 = 3
    /\ Len(out) = 16
    /\ At(out, 15) = ConcatByte(payload, 15)


---------------------------------------------------------------------------
(* Variant: which checksum is created for, and verified on, each length *)

\* the short-variant branch of ms32_create_checksum, whatever the length
ms32_create_short_checksum(d) == XorSeq(ms32_polymod(d \o Repeat(0, 13)), MS32_CONST)

\* lengths of the data handed to creation: around the switch of
\* ms32_create_checksum (80 / 81) and such that either checksum leads to a
\* total on each side of 93 and 96
VariantLens == {32, 78, 79, 80, 81, 82, 83, 109}

\* how many patterns of each length
NVariantSeeds == 3

VariantData ==
    {PatternData(n, 10, 29, seed) : n \in VariantLens, seed \in 1..NVariantSeeds}

VariantInit ==
    /\ pc = "start"
    /\ data \in VariantData
    /\ symbols = None /\ verdict = None
    /\ payload = None /\ out = None
    /\ operands = None /\ computed = None
    /\ codeword = None /\ errors = None /\ received = None /\ decoded = None
    /\ params = None
    /\ corrupted = None /\ original = None /\ hit = None /\ erasures = None
    /\ correction = None /\ search = None
    /\ session = None
    /\ entry = None
    /\ intent = None
    /\ box = None
    /\ value = None /\ share = None
    /\ shares = None /\ target = None /\ derived = None /\ subset = None
    /\ recovered = None /\ again = None

\* data + ms32_create_checksum(data)
VariantCreate ==
    /\ pc = "start"
    /\ symbols' = data \o ms32_create_checksum(data)
    /\ pc' = "created"
    /\ UNCHANGED <<value, share, data, verdict, shares, target, derived,
                   recovered, subset, again, corrupted, original, hit, params,
                   erasures, correction, search, codeword, errors, received,
                   decoded, operands, computed, payload, out,
                   box,
                   intent,
                   entry,
                   session>>

\* a sequence that carries the 13-symbol checksum of the short variant
VariantPresentShort ==
    /\ pc = "start"
    /\ symbols' = data \o ms32_create_short_checksum(data)
    /\ pc' = "presented"
    /\ UNCHANGED <<value, share, data, verdict, shares, target, derived,
                   recovered, subset, again, corrupted, original, hit, params,
                   erasures, correction, search, codeword, errors, received,
                   decoded, operands, computed, payload, out,
                   box,
                   intent,
                   entry,
                   session>>

\* a sequence that carries the 15-symbol checksum of the long variant
VariantPresentLong ==
    /\ pc = "start"
    /\ symbols' = data \o ms32_create_long_checksum(data)
    /\ pc' = "presented"
    /\ UNCHANGED <<value, share, data, verdict, shares, target, derived,
                   recovered, subset, again, corrupted, original, hit, params,
                   erasures, correction, search, codeword, errors, received,
                   decoded, operands, computed, payload, out,
                   box,
                   intent,
                   entry,
                   session>>

\* ms32_verify_checksum(symbols)
VariantVerify ==
    /\ pc \in {"created", "presented"}
    /\ verdict' = ms32_verify_checksum(symbols)
    /\ pc' = "checked"
    /\ UNCHANGED <<value, share, data, symbols, shares, target, derived,
                   recovered, subset, again, corrupted, original, hit, params,
                   erasures, correction, search, codeword, errors, received,
                   decoded, operands, computed, payload, out,
                   box,
                   intent,
                   entry,
                   session>>

VariantNext ==
    VariantCreate \/ VariantPresentShort \/ VariantPresentLong \/ VariantVerify

SpecVariant == VariantInit /\ [][VariantNext]_vars

\* the sequence is accepted by the short generator set and constant
ShortValid(seq) == ms32_polymod(seq) = MS32_CONST

\* creation agrees with verification: the sequence ms32_create_checksum made
\* is accepted, by the variant whose checksum length _checksum_length gives
CreationAgrees ==
    (pc = "checked" /\ symbols = data \o ms32_create_checksum(data)) =>
       /\ verdict
       /\ _checksum_length(symbols) = Len(symbols) - Len(data)
       /\ IF Len(symbols) - Len(data) = 15
          THEN Len(symbols) >= 96 /\ ms32_verify_long_checksum(symbols)
          ELSE Len(symbols) <= 93 /\ ShortValid(symbols)

\* C22: the variant is selected by the total symbol count alone and creation
\* agrees with verification: at most 93 symbols are verified with the short
\* generator set and a 13-symbol checksum, 96 symbols or more with the long
\* generator set and a 15-symbol checksum, sequences of 94 or 95 symbols are
\* accepted by neither; what ms32_create_checksum makes is verified by the
\* variant that made it.
C22_VariantByLength ==
    /\ (pc = "checked" /\ Len(symbols) <= 93) =>
           /\ verdict = ShortValid(symbols)
           /\ _checksum_length(symbols) = 13
    /\ (pc = "checked" /\ Len(symbols) >= 96) =>
           /\ verdict = ms32_verify_long_checksum(symbols)
           /\ _checksum_length(symbols) = 15
    /\ (pc = "checked" /\ Len(symbols) \in {94, 95}) => ~verdict
    /\ CreationAgrees

\* a data part of 81 symbols got the long checksum, 96 symbols in all, and
\* was accepted
C22_Witness ==
    /\ pc = "checked"
    /\ Len(data) = 81
    /\ symbols = data \o ms32_create_checksum(data)
    /\ Len(symbols) = 96
    /\ verdict

\* C22 as stated: at most 93 symbols are verified with the short generator
\* set and a 13-symbol checksum, every longer sequence with the long generator
\* set and a 15-symbol checksum; creation agrees with verification.
C22_AsStated ==
    /\ (pc = "checked" /\ Len(symbols) <= 93) =>
           /\ verdict = ShortValid(symbols)
           /\ _checksum_length(symbols) = 13
    /\ (pc = "checked" /\ Len(symbols) > 93) =>
           /\ verdict = ms32_verify_long_checksum(symbols)
           /\ _checksum_length(symbols) = 15
    /\ CreationAgrees


---------------------------------------------------------------------------
(* Parsing: which message each kind of violation gets *)

\* the kind of violation of a string outside the parsing contract: the first
\* rule it breaks, in the order character range, case, length, separator,
\* prefix, charset, threshold digit, threshold-0 index, checksum
ViolationKind(v) ==
    LET l == Lower(v)
    IN  IF ~(\A i \in 1..Len(v) : v[i] >= 33 /\ v[i] <= 126) THEN "characters"
        ELSE IF ~(\/ \A i \in 1..Len(v) : ~(v[i] >= 65 /\ v[i] <= 90)
                  \/ \A i \in 1..Len(v) : ~(v[i] >= 97 /\ v[i] <= 122))
          THEN "case"
        ELSE IF ~(Len(v) >= 48 /\ Len(v) <= 127) THEN "length"
        ELSE IF ~(At(l, 2) = Ch1 /\ \A i \in 3..(Len(l) - 1) : At(l, i) # Ch1)
          THEN "separator"
        ELSE IF ~(At(l, 0) = ChM /\ At(l, 1) = ChS) THEN "prefix"
        ELSE IF ~(\A i \in 3..(Len(l) - 1) : InCharset(At(l, i))) THEN "charset"
        ELSE IF At(l, 3) \notin ThresholdChars THEN "threshold"
        ELSE IF At(l, 3) = Ch0 /\ At(l, 8) # ChS THEN "index"
        ELSE "checksum"

\* the message _validate_ascii and _decode_data_values raise for the kinds
\* that have a raise statement to themselves
KindMessage ==
    [k \in {"characters", "case", "length", "prefix", "charset", "threshold",
            "index", "checksum"} |->
       CASE k = "characters" -> ErrInvalidChars
         [] k = "case" -> ErrSingleCase
         [] k = "length" -> ErrLength
         [] k = "prefix" -> ErrPrefix
         [] k = "charset" -> ErrNonBech32
         [] k = "threshold" -> ErrThreshold
         [] k = "index" -> ErrIndexS
         [] k = "checksum" -> ErrChecksum]

\* C23: each kind of violation of the parsing contract makes the construction
\* fail with a message of its own, different from the message of every other
\* kind; a well-formed string with a wrong checksum is reported as a checksum
\* failure.
C23_MessagePerKind ==
    (pc = "done" /\ ~ParsingContract(value)) =>
       /\ ~share.ok
       /\ IF ViolationKind(value) \in DOMAIN KindMessage
          THEN share.err = KindMessage[ViolationKind(value)]
          ELSE share.err \notin {KindMessage[k] : k \in DOMAIN KindMessage}


---------------------------------------------------------------------------
(* model.py: parse_codex32_share, validate_codex32_s_share, codex32_to_seed_bytes *)

\* None, handed over as expected_len
NoLength == -1

\* the expected_len both functions take when the caller gives none
DEFAULT_EXPECTED_LEN == 48

\* "".join(raw.split()).replace("-", "")
sanitize_codex32_input(raw) ==
    IF raw = NoneString THEN << >>
    ELSE SelectSeq(raw, LAMBDA c : ~IsSpace(c) /\ c # 45)

ErrEmptyInput == "Codex32 input is empty"

\* f"Expected {expected_len} characters for a 128-bit codex32 share, got {len(cleaned)}"
ErrExpectedLen(expected_len, n) ==
    "Expected " \o ToString(expected_len)
        \o " characters for a 128-bit codex32 share, got " \o ToString(n)

\* f"Share index must be 's' for an unshared secret, got '{codex.share_idx}'"
ErrNotSecretShare == "Share index must be 's' for an unshared secret"

\* f"Expected 16-byte (128-bit) master seed, got {len(codex.data)} bytes"
ErrSeedBytes(n) == "Expected 16-byte (128-bit) master seed, got " \o ToString(n) \o " bytes"

\* parse_codex32_share from the try statement on; codex.hrp is always "ms"
ParseCleaned(codex) ==
    IF ~codex.ok THEN Codex32InputError(codex.err) ELSE codex

\* parse_codex32_share after sanitize_codex32_input
ParseSanitized(cleaned, expected_len) ==
    IF Len(cleaned) = 0 THEN Codex32InputError(ErrEmptyInput)
    ELSE IF expected_len # NoLength /\ Len(cleaned) # expected_len
      THEN Codex32InputError(ErrExpectedLen(expected_len, Len(cleaned)))
    ELSE ParseCleaned(Codex32String(cleaned))

parse_codex32_share(codex_str, expected_len) ==
    ParseSanitized(sanitize_codex32_input(codex_str), expected_len)

\* validate_codex32_s_share after parse_codex32_share
ValidateParsed(codex) ==
    IF ~codex.ok THEN codex
    ELSE IF LowerChar(codex.share_idx) # ChS
      THEN Codex32InputError(ErrNotSecretShare)
    ELSE IF Len(codex.data) # 16
      THEN Codex32InputError(ErrSeedBytes(Len(codex.data)))
    ELSE codex

validate_codex32_s_share(codex_str, expected_len) ==
    ValidateParsed(parse_codex32_share(codex_str, expected_len))

\* codex32_to_seed_bytes(codex_str): the validated share, whose data it
\* returns, or the error raised
codex32_to_seed_bytes(codex_str) ==
    validate_codex32_s_share(codex_str, DEFAULT_EXPECTED_LEN)

---------------------------------------------------------------------------
(* Seed: strings handed to parse_codex32_share and codex32_to_seed_bytes *)

\* how many payload patterns of each shape are encoded
NSeedPatterns == 2

\* valid shares: the test vectors of 48 and 74 characters in both cases, a
\* share with index "a", and encoded secret shares of 48 and 74 characters
\* with thresholds "0" and "2"
SeedShares ==
    {VECTOR2_S, Lower(VECTOR2_S), VECTOR_74, Upper(VECTOR_74), VECTOR2_A}
    \cup {ms32_encode(PatternData(n, t, 16, seed)) :
             n \in {32, 58}, t \in {15, 10}, seed \in 1..NSeedPatterns}

\* the shares; the shares one character shorter, one and two characters
\* longer; a share between blanks, a share with hyphens; nothing
SeedInputs ==
    SeedShares
    \cup {Slice(v, 0, Len(v) - 1) : v \in SeedShares}
    \cup {v \o <<113>> : v \in SeedShares}
    \cup {v \o <<113, 113>> : v \in SeedShares}
    \cup {<<32>> \o Slice(v, 0, 4) \o <<45>> \o Slice(v, 4, Len(v)) \o <<10>> :
             v \in SeedShares}
    \cup {<< >>, NoneString}

\* the expected_len a caller gives explicitly
ExpectedLens == {74, NoLength}

SeedInit ==
    /\ pc = "start"
    /\ value \in SeedInputs
    /\ share = None
    /\ data = None /\ symbols = None /\ verdict = None
    /\ payload = None /\ out = None
    /\ operands = None /\ computed = None
    /\ codeword = None /\ errors = None /\ received = None /\ decoded = None
    /\ params = None
    /\ corrupted = None /\ original = None /\ hit = None /\ erasures = None
    /\ correction = None /\ search = None
    /\ session = None
    /\ entry = None
    /\ intent = None
    /\ box = None
    /\ shares = None /\ target = None /\ derived = None /\ subset = None
    /\ recovered = None /\ again = None

\* parse_codex32_share(value)
SeedParse ==
    /\ pc = "start"
    /\ share' = parse_codex32_share(value, DEFAULT_EXPECTED_LEN)
    /\ pc' = "parsed"
    /\ UNCHANGED <<value, data, symbols, verdict, shares, target, derived,
                   recovered, subset, again, corrupted, original, hit, params,
                   erasures, correction, search, codeword, errors, received,
                   decoded, operands, computed, payload, out,
                   box,
                   intent,
                   entry,
                   session>>

\* parse_codex32_share(value, expected_len)
SeedParseExpected ==
    /\ pc = "start"
    /\ \E n \in ExpectedLens :
          /\ params' = [expected_len |-> n]
          /\ share' = parse_codex32_share(value, n)
    /\ pc' = "parsed as expected"
    /\ UNCHANGED <<value, data, symbols, verdict, shares, target, derived,
                   recovered, subset, again, corrupted, original, hit,
                   erasures, correction, search, codeword, errors, received,
                   decoded, operands, computed, payload, out,
                   box,
                   intent,
                   entry,
                   session>>

\* codex32_to_seed_bytes(value)
SeedBytes ==
    /\ pc = "start"
    /\ share' = codex32_to_seed_bytes(value)
    /\ pc' = "seed"
    /\ UNCHANGED <<value, data, symbols, verdict, shares, target, derived,
                   recovered, subset, again, corrupted, original, hit, params,
                   erasures, correction, search, codeword, errors, received,
                   decoded, operands, computed, payload, out,
                   box,
                   intent,
                   entry,
                   session>>

SeedNext == SeedParse \/ SeedParseExpected \/ SeedBytes

SpecSeed == SeedInit /\ [][SeedNext]_vars

\* the share is valid and has index "s"
IsSecretShare(codex) == codex.ok /\ LowerChar(codex.share_idx) = ChS

\* the string is a valid share with index "s" once blanks and hyphens are removed
ValidSecretShare(v) == IsSecretShare(Codex32String(sanitize_codex32_input(v)))

\* C24: parse_codex32_share and codex32_to_seed_bytes called without an
\* expected length accept every valid secret share of 48 characters, which
\* yields 16 seed bytes, and of 74 characters, which yields 32 seed bytes;
\* strings of any other length are rejected with Codex32InputError.
C24_BothLengthsAccepted ==
    pc \in {"parsed", "seed"} =>
       LET n == Len(sanitize_codex32_input(value))
       IN  /\ (ValidSecretShare(value) /\ n = 48) =>
                  share.ok /\ Len(share.data) = 16
           /\ (ValidSecretShare(value) /\ n = 74) =>
                  share.ok /\ Len(share.data) = 32
           /\ n \notin {48, 74} =>
                  ~share.ok /\ share.raised = "Codex32InputError"


\* C25: for a non-empty list of valid shares of equal length with pairwise
\* distinct indices and the same threshold digit and identifier, and a target
\* index t of the charset, interpolate_at(shares, t) returns a valid share
\* with index t and the threshold digit and identifier of the inputs; when t
\* is the index of a supplied share, the returned share equals that share.
C25_InterpolateAtAnyIndex ==
    (/\ pc = "interpolated"
     /\ Len(shares) > 0
     /\ \A j \in 1..Len(shares) : shares[j].ok
     /\ SameHeader(shares) /\ SameLength(shares) /\ ~HasDuplicateIndex(shares)
     /\ InCharset(LowerChar(target)))
    => /\ derived.ok
       /\ derived.share_idx = LowerChar(target)
       /\ derived.k = shares[1].k
       /\ derived.ident = shares[1].ident
       /\ \A j \in 1..Len(shares) :
             shares[j].share_idx = LowerChar(target) => derived = shares[j]


\* C26: gf32.py and codex32_min.py compute in one and the same field: for all
\* a, b in 0..31, gf32_mul(a, b) equals bech32_mul(a, b); for every nonzero a,
\* gf32_inv(a) equals BECH32_INV[a] and bech32_mul(a, BECH32_INV[a]) is 1.
C26_OneField ==
    /\ pc = "multiplied" =>
           computed.mul_ab = bech32_mul(operands.a, operands.b)
    /\ (pc = "divided" /\ operands.a # 0) =>
           /\ computed.inv_a = BECH32_INV[operands.a + 1]
           /\ bech32_mul(operands.a, BECH32_INV[operands.a + 1]) = 1


---------------------------------------------------------------------------
(* controller.py: box-by-box entry *)

TOTAL_LEN == 48

\* "MS1"
BASE_PREFIX == <<77, 83, 49>>

FIRST_BOX == Len(BASE_PREFIX) + 1

\* {"/cancel", "/exit"}
ENTRY_CANCEL_COMMANDS ==
    {<<47, 99, 97, 110, 99, 101, 108>>, <<47, 101, 120, 105, 116>>}

_normalize_box_char_raw(v) == IF Len(v) = 0 THEN << >> ELSE Strip(v)

_normalize_box_char(v) == IF Len(v) = 0 THEN << >> ELSE Upper(Strip(v))

_is_valid_bech32_char(v) == Len(v) = 1 /\ InCharset(LowerChar(v[1]))

\* "" or "<"
_is_backspace(v) == v = << >> \/ v = <<60>>

\* one pass of the loop of collect_codex32_boxes on the input raw, and the
\* loop test that follows it
BoxPass(b, raw, ch) ==
    IF Lower(Strip(raw)) \in ENTRY_CANCEL_COMMANDS
      THEN [b EXCEPT !.raw = raw, !.status = "KeyboardInterrupt"]
    ELSE IF _is_backspace(ch)
      THEN IF Len(b.current) > Len(b.prefix)
             THEN [b EXCEPT !.raw = raw,
                            !.current = SubSeq(@, 1, Len(@) - 1),
                            !.box_number = @ - 1]
             ELSE [b EXCEPT !.raw = raw]
    ELSE IF Len(ch) # 1 THEN [b EXCEPT !.raw = raw]
    ELSE IF ~_is_valid_bech32_char(ch) THEN [b EXCEPT !.raw = raw]
    ELSE [b EXCEPT !.raw = raw,
                   !.current = b.current \o ch,
                   !.box_number = @ + 1,
                   !.status = IF b.box_number + 1 <= TOTAL_LEN
                                THEN "reading" ELSE "returned"]

\* collect_codex32_boxes(prefix, start_box) up to its first input
BoxesEntered(prefix, start_box) ==
    [prefix |-> prefix, current |-> prefix, box_number |-> start_box,
     raw |-> NoneString,
     status |-> IF start_box <= TOTAL_LEN THEN "reading" ELSE "returned"]

collect_codex32_boxes(b, raw) == BoxPass(b, raw, _normalize_box_char(raw))

---------------------------------------------------------------------------
(* Boxes: one call of collect_codex32_boxes and the inputs typed into it *)

\* the prefixes the entry flow hands over: "MS1", and "MS1" with the
\* threshold digit and the identifier of a first share, upper-cased or not
BoxPrefixes ==
    {BASE_PREFIX,
     SubSeq(VECTOR2_A, 1, 8), BASE_PREFIX \o SubSeq(Lower(VECTOR2_A), 4, 8),
     Upper(SubSeq(VECTOR3_A, 1, 8)), BASE_PREFIX \o SubSeq(VECTOR3_A, 4, 8)}

\* the strings a user copies from
BoxIntents ==
    {VECTOR1, VECTOR2_A, VECTOR2_C, VECTOR2_S, VECTOR3_A, VECTOR3_C, VECTOR3_D}

\* what may be typed into a box when the character to copy is c
BoxRaws(c) ==
    {<<c>>, <<LowerChar(c)>>, <<UpperChar(c)>>, <<32, c, 32>>,
     << >>, <<60>>, <<32>>, <<32, 60>>,
     <<98>>, <<66>>, <<49>>, <<45>>, <<c, c>>, <<60, 60>>,
     <<47, 99, 97, 110, 99, 101, 108>>, <<32, 47, 69, 88, 73, 84, 32>>,
     <<47, 99, 97, 110>>}

BoxesInit ==
    /\ pc = "start"
    /\ \E prefix \in BoxPrefixes : box = BoxesEntered(prefix, Len(prefix) + 1)
    /\ intent \in BoxIntents
    /\ operands = None /\ computed = None
    /\ codeword = None /\ errors = None /\ received = None /\ decoded = None
    /\ params = None
    /\ corrupted = None /\ original = None /\ hit = None /\ erasures = None
    /\ correction = None /\ search = None
    /\ session = None
    /\ entry = None
    /\ out = None
    /\ payload = None
    /\ value = None /\ share = None /\ data = None
    /\ symbols = None /\ verdict = None
    /\ shares = None /\ target = None /\ derived = None /\ subset = None
    /\ recovered = None /\ again = None

\* view.get_box_input(box_number) returns and the loop goes round once
BoxInput ==
    /\ box.status = "reading"
    /\ \E raw \in BoxRaws(intent[box.box_number]) :
          box' = collect_codex32_boxes(box, raw)
    /\ pc' = "box"
    /\ UNCHANGED <<value, share, data, symbols, verdict, shares, target, derived,
                   recovered, subset, again, corrupted, original, hit, params,
                   erasures, correction, search, codeword, errors, received,
                   decoded, operands, computed, payload, out, intent,
                   entry,
                   session>>

BoxesNext == BoxInput

SpecBoxes == BoxesInit /\ [][BoxesNext]_vars

\* the input read last is one character of the charset, blanks aside
ValidBoxInput(raw) ==
    /\ Len(Strip(raw)) = 1
    /\ InCharset(LowerChar(Strip(raw)[1]))

\* the input read last is a backspace: nothing, blanks, or "<"
BackspaceInput(raw) == Strip(raw) \in {<< >>, <<60>>}

CancelInput(raw) == Lower(Strip(raw)) \in ENTRY_CANCEL_COMMANDS

\* at every point of the call
BoxesInvariant ==
    /\ Len(box.current) = box.box_number - 1
    /\ Len(box.current) >= Len(box.prefix)
    /\ SubSeq(box.current, 1, Len(box.prefix)) = box.prefix
    /\ box.status = "returned" => Len(box.current) = TOTAL_LEN

\* what one input does
BoxesStep ==
    LET raw == box'.raw
    IN  /\ CancelInput(raw) <=> box'.status = "KeyboardInterrupt"
        /\ ValidBoxInput(raw) =>
             /\ box'.current = Append(box.current, UpperChar(Strip(raw)[1]))
             /\ box'.box_number = box.box_number + 1
        /\ (BackspaceInput(raw) /\ Len(box.current) > Len(box.prefix)) =>
             /\ box'.current = SubSeq(box.current, 1, Len(box.current) - 1)
             /\ box'.box_number = box.box_number - 1
        /\ (BackspaceInput(raw) /\ Len(box.current) = Len(box.prefix)) =>
             /\ box'.current = box.current
             /\ box'.box_number = box.box_number
        /\ (~ValidBoxInput(raw) /\ ~BackspaceInput(raw)) =>
             /\ box'.current = box.current
             /\ box'.box_number = box.box_number

\* C29: collect_codex32_boxes(prefix, len(prefix) + 1) keeps len(current)
\* equal to box_number - 1, with current starting with prefix and never
\* shorter than it; a valid character appends its upper-case form and
\* advances one box, a backspace removes the last entered character and goes
\* back one box, a backspace at the first editable box and any invalid input
\* leave current and box_number unchanged, a cancel command raises
\* KeyboardInterrupt, and only a string of exactly 48 characters is returned.
C29_BoxEntry == []BoxesInvariant /\ [][BoxesStep]_vars

\* the last box has been filled, starting from the prefix of a first share,
\* by an input typed in lower case between blanks
C29_Witness ==
    /\ box.status = "returned"
    /\ box.raw = <<32, LowerChar(intent[TOTAL_LEN]), 32>>
    /\ box.raw # <<32, box.current[TOTAL_LEN], 32>>
    /\ Len(box.prefix) = 8
    /\ box.current = box.prefix \o Upper(SubSeq(intent, 9, TOTAL_LEN))


---------------------------------------------------------------------------
(* the strings entered *)

\* the strings a user copies from: the shares of the 2-of-n and of the
\* 3-of-n set, a secret share, and a share with one character miscopied
EntryCopied ==
    {VECTOR2_A, VECTOR2_C, VECTOR3_A, VECTOR3_C, VECTOR3_D, VECTOR2_S,
     Replace(VECTOR3_D, 20, 113)}

\* the strings handed over whole, as initial_share or pasted: those, shares
\* in the other case, and a share of another identifier
EntryStrings ==
    EntryCopied \cup {Lower(VECTOR2_A), Lower(VECTOR2_C), Upper(VECTOR3_C), OTHER_D}

\* what is pasted in full mode: a string, a string between blanks, nothing,
\* a cancel command
FullRaws ==
    EntryStrings \cup {<<32>> \o VECTOR2_C \o <<32>>, << >>, <<32>>,
                       <<47, 99, 97, 110, 99, 101, 108>>}

\* the sets of shares a user holds
ShareSets == {{VECTOR2_A, VECTOR2_C}, {VECTOR3_A, VECTOR3_C, VECTOR3_D}}

\* a valid first split share, in upper or in lower case
FirstShares == {Upper(s) : s \in UNION ShareSets} \cup {Lower(s) : s \in UNION ShareSets}

(* what the entry flow computes from the strings entered: the values of the
   codec's operators at the strings that can be entered, computed once *)

\* the function f with its values computed: f @@ g is built from the values
\* of f and of g
Table(f) == f @@ << >>

\* the strings handed over whole that are parsed
EnteredWhole == EntryStrings \cup FirstShares

\* the prefixes handed to collect_codex32_boxes
EnteredPrefixes ==
    {BASE_PREFIX}
        \cup {SubSeq(Upper(s), 1, 8) : s \in EnteredWhole}
        \cup {BASE_PREFIX \o SubSeq(Lower(s), 4, 8) : s \in EnteredWhole}

\* the strings collect_codex32_boxes returns when a string is copied
EnteredInBoxes ==
    {p \o Upper(SubSeq(s, Len(p) + 1, TOTAL_LEN)) :
        p \in EnteredPrefixes, s \in EntryCopied \cup UNION ShareSets}

\* the secret shares of the sets of shares, in upper or in lower case
SecretShares == {Upper(VECTOR2_S), Lower(VECTOR2_S), Upper(VECTOR3_S), Lower(VECTOR3_S)}

\* the strings met in the entry flow
EnteredStrings == EnteredWhole \cup EnteredInBoxes \cup SecretShares

\* Codex32String(codex_str) of a string entered (controller.py:217, 260)
ParsedEntered ==
    Table([codex_str \in EnteredStrings |->
              parse_codex32_share(codex_str, DEFAULT_EXPECTED_LEN)])

ParsedEntry(codex_str) == ParsedEntered[codex_str]

\* the strings entered that are valid
ValidEntered == FirstShares \cup SecretShares \cup {OTHER_D}

\* the lists of strings whose shares the collection loop can end with
CollectedEntered == UNION {[1..n -> ValidEntered] : n \in 2..3}

\* recover_secret_share of the shares collected (controller.py:276)
RecoveredEntered ==
    Table([strs \in CollectedEntered |->
              recover_secret_share([j \in 1..Len(strs) |-> ParsedEntered[strs[j]]])])

\* the strings of a list of shares
StringsOf(sh) == [j \in 1..Len(sh) |-> sh[j].value]

RecoveredEntry(sh) == RecoveredEntered[StringsOf(sh)]

\* codex32_to_seed_bytes of a secret share's string, entered or recovered
\* (controller.py:225, 277)
SeededEntered == {x \in EnteredStrings : Len(x) > 8 /\ LowerChar(x[9]) = ChS}

SeedEntered ==
    Table([codex_str \in SeededEntered |-> codex32_to_seed_bytes(codex_str)])

SeedEntry(codex_str) ==
    IF codex_str \in SeededEntered THEN SeedEntered[codex_str]
    ELSE codex32_to_seed_bytes(codex_str)

---------------------------------------------------------------------------
(* controller.py: _load_seed_from_entry *)

\* str.isupper()
IsUpper(s) == s = Upper(s) /\ \E i \in 1..Len(s) : s[i] >= 65 /\ s[i] <= 90

ErrEmptyShare == "Share input cannot be empty."
ErrThresholdTooLow == "Threshold must be >= 2 for split shares."
ErrHeaderMismatch == "Share header mismatch (k/identifier)."
ErrDuplicateIndex == "Duplicate share index entered."

\* what _collect_share_full and _collect_share_box return besides a string
CANCELLED == <<-2>>

\* _collect_share_full on the pasted line and the answer to the confirmation;
\* the message displayed, if any, goes with the result
_collect_share_full(raw, yes) ==
    LET codex_str == Strip(raw)
    IN  IF Lower(codex_str) \in ENTRY_CANCEL_COMMANDS
          THEN [result |-> CANCELLED, error |-> ""]
        ELSE IF Len(codex_str) = 0
          THEN [result |-> NoneString, error |-> ErrEmptyShare]
        ELSE IF ~yes THEN [result |-> NoneString, error |-> ""]
        ELSE [result |-> codex_str, error |-> ""]

\* _collect_share_box once collect_codex32_boxes has returned or raised
_collect_share_box(b, yes) ==
    IF b.status = "KeyboardInterrupt" THEN [result |-> CANCELLED, error |-> ""]
    ELSE IF ~yes THEN [result |-> NoneString, error |-> ""]
    ELSE [result |-> b.current, error |-> ""]

\* the call before its first statement
EntryCalled(entry_mode, initial_share) ==
    [entry_mode |-> entry_mode, pending_share |-> initial_share,
     \* where the call stands; the message displayed by the last pass, and
     \* the list that pass handed to recover_secret_share, if any
     at |-> "first", error |-> "",
     first_share |-> NoShare(""), threshold |-> 0, shares |-> << >>,
     prefix |-> << >>, recover_args |-> << >>, secret |-> NoneString,
     seed_bytes |-> << >>, recovered_share |-> NoneString]

\* display_error, wait_for_retry and continue of the outer loop
EntryRetry(e, msg) == [e EXCEPT !.at = "first", !.error = msg]

\* return seed_bytes, None and return seed_bytes, secret.s
EntryReturn(e, seed_bytes) ==
    [e EXCEPT !.at = "returned", !.error = "", !.seed_bytes = seed_bytes]

\* candidate.k != first_share.k or candidate.ident != first_share.ident
HeaderMismatch_never(candidate, first_share) == FALSE

HeaderMismatch(candidate, first_share) ==
    candidate.k # first_share.k \/ candidate.ident # first_share.ident

\* candidate.share_idx.lower() in {s.share_idx.lower() for s in shares}
DuplicateEntered(candidate, sh) ==
    \E j \in 1..Len(sh) : LowerChar(candidate.share_idx) = LowerChar(sh[j].share_idx)

\* the prefix handed to the collection of shares 2..k
EntryPrefix(first_share) ==
    IF IsUpper(first_share.value)
      THEN Upper(BASE_PREFIX \o <<first_share.k>> \o first_share.ident)
      ELSE BASE_PREFIX \o <<first_share.k>> \o first_share.ident

\* the outer loop from parse_codex32_share(codex_str) to the collection loop,
\* given what the parse returned; "seed" is the call of codex32_to_seed_bytes
EntryFirstParsed(e, first_share) ==
    IF ~first_share.ok THEN EntryRetry(e, first_share.err)
    ELSE IF LowerChar(first_share.share_idx) = ChS
      THEN [e EXCEPT !.at = "seed", !.error = "", !.first_share = first_share,
                     !.secret = first_share.value,
                     !.recovered_share = NoneString]
    ELSE IF first_share.k - 48 < 2
      THEN EntryRetry([e EXCEPT !.first_share = first_share,
                                !.threshold = first_share.k - 48],
                      ErrThresholdTooLow)
    ELSE [e EXCEPT !.at = "collect", !.error = "",
                   !.first_share = first_share,
                   !.threshold = first_share.k - 48,
                   !.shares = <<first_share>>,
                   !.prefix = EntryPrefix(first_share)]

\* the collection loop from parse_codex32_share(codex_str) to its end
EntryCandidateParsed(e, candidate) ==
    IF ~candidate.ok THEN [e EXCEPT !.error = candidate.err]
    ELSE IF HeaderMismatch(candidate, e.first_share)
      THEN [e EXCEPT !.error = ErrHeaderMismatch]
    ELSE IF DuplicateEntered(candidate, e.shares)
      THEN [e EXCEPT !.error = ErrDuplicateIndex]
    ELSE [e EXCEPT !.error = "", !.shares = Append(@, candidate)]

\* what follows recover_secret_share(shares), given what it returned or raised
EntryRecovered(e, secret) ==
    IF ~secret.ok THEN EntryRetry(e, secret.err)
    ELSE [e EXCEPT !.at = "seed", !.secret = secret.value,
                   !.recovered_share = secret.value]

\* the test of the collection loop, and the call that follows the loop
EntryLoop(e) ==
    IF e.at # "collect" \/ Len(e.shares) < e.threshold THEN e
    ELSE EntryRecovered([e EXCEPT !.recover_args = e.shares],
                        RecoveredEntry(e.shares))

\* what follows codex32_to_seed_bytes, given what it returned or raised
EntrySeed(e, seed) ==
    IF ~seed.ok THEN EntryRetry(e, seed.err)
    ELSE EntryReturn(e, seed.data)

\* the call of codex32_to_seed_bytes, when the flow has come to it
EntryFinish(e) ==
    IF e.at # "seed" THEN e ELSE EntrySeed(e, SeedEntry(e.secret))

\* either loop from parse_codex32_share(codex_str) on
EntryParsed(e, parsed) ==
    EntryFinish(EntryLoop(IF e.at = "first" THEN EntryFirstParsed(e, parsed)
                          ELSE EntryCandidateParsed(e, parsed)))

\* what either loop does with a string handed over, or with the result of
\* _collect_share_full or _collect_share_box
EntryCollected(e, got) ==
    IF got.result = CANCELLED
      THEN [e EXCEPT !.at = "cancelled", !.error = ""]
    ELSE IF got.result = NoneString THEN [e EXCEPT !.error = got.error]
    ELSE EntryParsed([e EXCEPT !.recover_args = << >>],
                     ParsedEntry(got.result))

\* no call of collect_codex32_boxes is under way
NoBoxes == [BoxesEntered(<< >>, 0) EXCEPT !.status = "idle"]

\* the call of collect_codex32_boxes the flow makes next, if any
EntryBoxes(e) ==
    IF e.entry_mode # "box" \/ e.at \notin {"first", "collect"} THEN NoBoxes
    ELSE IF e.at = "first" THEN BoxesEntered(BASE_PREFIX, FIRST_BOX)
    ELSE BoxesEntered(e.prefix, Len(e.prefix) + 1)


---------------------------------------------------------------------------
(* Entry: one call of _load_seed_from_entry and what the user enters *)

\* what is typed into a box when the character to copy is c
EntryBoxRaws(c) == {<<c>>, << >>, <<47, 101, 120, 105, 116>>}

\* what the user may mean to enter when the flow stands as e
EntryIntents(e) ==
    IF EntryBoxes(e).status = "reading" THEN EntryCopied ELSE {NoneString}

EntryInit ==
    /\ pc = "start"
    /\ \E entry_mode \in {"full", "box"},
          initial_share \in EntryStrings \cup {NoneString} :
          entry = EntryCalled(entry_mode, initial_share)
    /\ box = IF entry.pending_share = NoneString THEN EntryBoxes(entry) ELSE NoBoxes
    /\ intent \in IF entry.pending_share = NoneString
                    THEN EntryIntents(entry) ELSE {NoneString}
    /\ operands = None /\ computed = None
    /\ codeword = None /\ errors = None /\ received = None /\ decoded = None
    /\ params = None
    /\ corrupted = None /\ original = None /\ hit = None /\ erasures = None
    /\ correction = None /\ search = None
    /\ session = None
    /\ out = None
    /\ payload = None
    /\ value = None /\ share = None /\ data = None
    /\ symbols = None /\ verdict = None
    /\ shares = None /\ target = None /\ derived = None /\ subset = None
    /\ recovered = None /\ again = None

\* the flow goes on as e1, and the user means to enter one of choices(e1)
\* next
EntryGoesOn(e1, choices(_)) ==
    /\ entry' = e1
    /\ box' = EntryBoxes(entry')
    /\ intent' \in choices(entry')
    /\ pc' = "entry"
    /\ UNCHANGED <<value, share, data, symbols, verdict, shares, target, derived,
                   recovered, subset, again, corrupted, original, hit, params,
                   erasures, correction, search, codeword, errors, received,
                   decoded, operands, computed, payload, out,
                   session>>

\* the first pass of the outer loop when initial_share was given
InitialShareTaken(choices(_)) ==
    /\ entry.at = "first"
    /\ entry.pending_share # NoneString
    /\ EntryGoesOn(EntryCollected([entry EXCEPT !.pending_share = NoneString],
                             [result |-> entry.pending_share, error |-> ""]),
                   choices)

EntryInitialShare == InitialShareTaken(EntryIntents)

\* full mode: a line is pasted and the confirmation answered
EntryFullInput ==
    /\ entry.entry_mode = "full"
    /\ entry.at \in {"first", "collect"}
    /\ entry.pending_share = NoneString
    /\ \E raw \in FullRaws, yes \in BOOLEAN :
          EntryGoesOn(EntryCollected(entry, _collect_share_full(raw, yes)),
                      EntryIntents)

\* box mode: raw is typed into the box asked for; when that ends the call of
\* collect_codex32_boxes, the confirmation is answered by yes and the flow
\* goes on, the user meaning to enter one of choices(e1) next
BoxEntered(b, yes, choices(_)) ==
    IF b.status = "reading"
      THEN /\ box' = b
           /\ pc' = "entry"
           /\ UNCHANGED <<value, share, data, symbols, verdict, shares, target,
                          derived, recovered, subset, again, corrupted, original,
                          hit, params, erasures, correction, search, codeword,
                          errors, received, decoded, operands, computed, payload,
                          out, intent, entry,
                   session>>
      ELSE EntryGoesOn(EntryCollected(entry, _collect_share_box(b, yes)), choices)

EntryBoxInput ==
    /\ entry.entry_mode = "box"
    /\ box.status = "reading"
    /\ \E raw \in EntryBoxRaws(intent[box.box_number]), yes \in BOOLEAN :
          BoxEntered(collect_codex32_boxes(box, raw), yes, EntryIntents)

EntryNext == EntryInitialShare \/ EntryFullInput \/ EntryBoxInput

SpecEntry == EntryInit /\ [][EntryNext]_vars


\* the shares of sh have the header of first_share and distinct indices
SharesOfOneSet(sh, first_share) ==
    /\ \A j \in 1..Len(sh) :
          /\ sh[j].ok
          /\ sh[j].k = first_share.k
          /\ sh[j].ident = first_share.ident
    /\ \A i, j \in 1..Len(sh) :
          i # j => LowerChar(sh[i].share_idx) # LowerChar(sh[j].share_idx)

\* at every point of the collection loop, and at the call that follows it
EntryInvariant ==
    /\ entry.at = "collect" =>
          /\ entry.shares[1] = entry.first_share
          /\ Len(entry.shares) < entry.threshold
          /\ SharesOfOneSet(entry.shares, entry.first_share)
    /\ entry.recover_args # << >> =>
          /\ Len(entry.recover_args) = entry.first_share.k - 48
          /\ entry.recover_args[1] = entry.first_share
          /\ SharesOfOneSet(entry.recover_args, entry.first_share)

\* one pass of the collection loop: a candidate that is refused, an input
\* that is not confirmed and a cancellation leave the list as it was; an
\* accepted candidate is appended
EntryCollects ==
    (entry.at = "collect" /\ entry'.at \in {"collect", "cancelled"}) =>
       /\ (entry'.error # "" \/ entry'.at = "cancelled") =>
             entry'.shares = entry.shares
       /\ \/ entry'.shares = entry.shares
          \/ /\ Len(entry'.shares) = Len(entry.shares) + 1
             /\ SubSeq(entry'.shares, 1, Len(entry.shares)) = entry.shares

\* C27: in _load_seed_from_entry, at every point of the collection loop the
\* collected shares all have the threshold digit and identifier of the first
\* share and pairwise distinct share indices; a candidate that fails parsing,
\* has a different header or repeats an index leaves the collected list
\* unchanged; and recover_secret_share is called only once the list holds
\* exactly k shares, k being the first share's threshold.
C27_ShareSetOfEntry == []EntryInvariant /\ [][EntryCollects]_vars

\* the three shares of the 3-of-n set have been typed into the boxes and
\* handed to recover_secret_share
C27_Witness ==
    /\ entry.entry_mode = "box"
    /\ entry.at = "returned"
    /\ Len(entry.recover_args) = 3
    /\ entry.recovered_share # NoneString


---------------------------------------------------------------------------
(* BoxEntry: box mode, the user entering the shares of one set *)

\* the shares of the set of first_share that are not in sh yet
RemainingShares(first_share, sh) ==
    {s \in UNION {set \in ShareSets :
                     \E f \in set : Lower(f) = Lower(first_share.value)} :
        \A j \in 1..Len(sh) : Lower(s) # Lower(sh[j].value)}

\* the user enters a first share, then the remaining shares of its set
CarefulIntents(e) ==
    IF EntryBoxes(e).status # "reading" THEN {NoneString}
    ELSE IF e.at = "first" THEN UNION ShareSets
    ELSE RemainingShares(e.first_share, e.shares)

BoxEntryInit ==
    /\ pc = "start"
    /\ \E initial_share \in FirstShares \cup {NoneString} :
          entry = EntryCalled("box", initial_share)
    /\ box = IF entry.pending_share = NoneString THEN EntryBoxes(entry) ELSE NoBoxes
    /\ intent \in IF entry.pending_share = NoneString
                    THEN CarefulIntents(entry) ELSE {NoneString}
    /\ operands = None /\ computed = None
    /\ codeword = None /\ errors = None /\ received = None /\ decoded = None
    /\ params = None
    /\ corrupted = None /\ original = None /\ hit = None /\ erasures = None
    /\ correction = None /\ search = None
    /\ session = None
    /\ out = None
    /\ payload = None
    /\ value = None /\ share = None /\ data = None
    /\ symbols = None /\ verdict = None
    /\ shares = None /\ target = None /\ derived = None /\ subset = None
    /\ recovered = None /\ again = None

\* the share given as initial_share is taken as the first share
BoxEntryInitialShare == InitialShareTaken(CarefulIntents)

\* the user types the character to copy, in either case, into the box asked
\* for, and confirms the string when the last box is filled
BoxEntryTyped ==
    /\ entry.entry_mode = "box"
    /\ box.status = "reading"
    /\ \E raw \in {<<intent[box.box_number]>>,
                   <<LowerChar(intent[box.box_number])>>} :
          BoxEntered(collect_codex32_boxes(box, raw), TRUE, CarefulIntents)

BoxEntryNext == BoxEntryInitialShare \/ BoxEntryTyped

\* view.get_box_input returns whenever the user types, and the user goes on
\* typing until the flow returns
SpecBoxEntry == BoxEntryInit /\ [][BoxEntryNext]_vars /\ WF_vars(BoxEntryNext)

\* the prefix pre-filled for shares 2..k is single-case, in the case of the
\* characters box entry appends
PrefixInBoxCase ==
    entry.at = "collect" => entry.prefix = Upper(entry.prefix)

\* the flow has returned the seed of the secret share it recovered
RecoveredSeedReturned ==
    /\ entry.at = "returned"
    /\ entry.recovered_share # NoneString
    /\ Len(entry.seed_bytes) = 16

\* C28: in box entry mode, for every valid first split share with threshold
\* k >= 2, typed in boxes or supplied as initial_share, upper-case or
\* lower-case, the prefix pre-filled for shares 2..k is single-case and of
\* the case of the characters box entry appends, so that when the user
\* enters the remaining k-1 valid shares of the set character by character,
\* each is accepted and the flow eventually returns the recovered seed.
C28_BoxEntryRecovers ==
    /\ []PrefixInBoxCase
    /\ [](entry.error = "")
    /\ <>RecoveredSeedReturned


---------------------------------------------------------------------------
(* controller.py: _session_loop *)

\* str.isdigit() holds of the decimal digits and of the superscript digits,
\* int() reads the decimal digits only (characters below 256)
IsDigitChar(c) == c \in 48..57 \cup {178, 179, 185}

IsDecimalChar(c) == c \in 48..57

\* choice.isdigit()
IsDigit(s) == Len(s) > 0 /\ \A i \in 1..Len(s) : IsDigitChar(s[i])

\* int(choice) raises ValueError when a character is no decimal digit
IntRaises(s) == \E i \in 1..Len(s) : ~IsDecimalChar(s[i])

\* int(choice) of a string of decimal digits
RECURSIVE IntOf(_)
IntOf(s) ==
    IF Len(s) = 0 THEN 0
    ELSE 10 * IntOf(SubSeq(s, 1, Len(s) - 1)) + (s[Len(s)] - 48)

\* the seed bytes _load_seed_from_entry returns: sixteen bytes
SessionSeed(n) == [j \in 1..16 |-> n]

HexChar(d) == IF d < 10 THEN 48 + d ELSE 87 + d

\* get_seed_fingerprint(seed_bytes, network): eight hexadecimal characters
\* that the seed determines (model.py:178-186 derives them with embit; here
\* digits only for the even seeds, letters only for the odd ones)
get_seed_fingerprint(seed_bytes) ==
    [j \in 1..8 |->
        IF seed_bytes[1] % 2 = 0 THEN HexChar((seed_bytes[1] + j) % 10)
        ELSE HexChar(10 + ((seed_bytes[1] + j) % 6))]

\* _build_loaded_key(seed_bytes, network, recovered_share)
_build_loaded_key(seed_bytes, recovered_share) ==
    [seed_bytes |-> seed_bytes,
     fingerprint |-> get_seed_fingerprint(seed_bytes),
     recovered_share |-> recovered_share]

\* the indices of the list, counted from 0, at which test holds
IndicesWhere(loaded_keys, test(_)) ==
    {i \in 0..(Len(loaded_keys) - 1) : test(loaded_keys[i + 1])}

\* the first of a non-empty set of indices
FirstIndex(found) == CHOOSE i \in found : \A j \in found : i <= j

\* no index: the None that both searches below return
NoIndex == -1

\* _find_loaded_key_index(loaded_keys, seed_bytes)
_find_loaded_key_index(loaded_keys, seed_bytes) ==
    LET Same(loaded) == loaded.seed_bytes = seed_bytes
    IN  IF IndicesWhere(loaded_keys, Same) = {} THEN NoIndex
        ELSE FirstIndex(IndicesWhere(loaded_keys, Same))

\* _parse_switch_key_choice(raw_choice, loaded_keys): [raised, selected]
_parse_switch_key_choice(raw_choice, loaded_keys) ==
    LET choice == Lower(Strip(raw_choice))
        Named(loaded) == Lower(loaded.fingerprint) = choice
    IN  IF choice \in {<< >>, <<98>>, <<98, 97, 99, 107>>}
          THEN [raised |-> "", selected |-> NoIndex]
        ELSE IF IsDigit(choice)
          THEN IF IntRaises(choice)
                 THEN [raised |-> "ValueError", selected |-> NoIndex]
               ELSE IF 1 <= IntOf(choice) /\ IntOf(choice) <= Len(loaded_keys)
                 THEN [raised |-> "", selected |-> IntOf(choice) - 1]
               ELSE [raised |-> "Codex32InputError", selected |-> NoIndex]
        ELSE IF IndicesWhere(loaded_keys, Named) # {}
          THEN [raised |-> "", selected |-> FirstIndex(IndicesWhere(loaded_keys, Named))]
        ELSE [raised |-> "Codex32InputError", selected |-> NoIndex]

\* no result: the call has not returned
NoResult == -1

\* the state of _session_loop as run calls it (controller.py:486-499): one
\* key loaded, which is the active one
SessionCalled(seed_bytes, recovered_share) ==
    [loaded_keys |-> <<_build_loaded_key(seed_bytes, recovered_share)>>,
     active_key_index |-> 0,
     action |-> "", input |-> << >>, error |-> "",
     at |-> "menu", result |-> NoResult, raised |-> ""]

\* one pass of the loop has read action and input
SessionRead(s, action, input) ==
    [s EXCEPT !.action = action, !.input = input, !.error = ""]

\* return result
SessionReturn(s, result) == [s EXCEPT !.at = "returned", !.result = result]

\* an exception that no handler of the loop catches leaves the call
SessionRaise(s, exception) == [s EXCEPT !.at = "raised", !.raised = exception]

\* view.display_error(...); continue
SessionError(s, msg) == [s EXCEPT !.error = msg]

\* action "5", given what _load_seed_from_entry returned
SessionLoaded(s, seed_bytes, recovered_share) ==
    IF _find_loaded_key_index(s.loaded_keys, seed_bytes) # NoIndex
      THEN [s EXCEPT !.active_key_index =
                         _find_loaded_key_index(s.loaded_keys, seed_bytes)]
      ELSE [s EXCEPT !.loaded_keys =
                         Append(@, _build_loaded_key(seed_bytes, recovered_share)),
                     !.active_key_index = Len(s.loaded_keys)]

\* action "6", given what _parse_switch_key_choice returned or raised
SessionSwitched(s, parsed) ==
    IF parsed.raised = "Codex32InputError"
      THEN SessionError(s, "Codex32InputError")
    ELSE IF parsed.raised # "" THEN SessionRaise(s, parsed.raised)
    ELSE IF parsed.selected = NoIndex THEN s
    ELSE [s EXCEPT !.active_key_index = parsed.selected]

---------------------------------------------------------------------------
(* Session: run calls _session_loop with the first key loaded; the user
   chooses actions, loads seeds, switches keys and interrupts *)

\* the number of seeds the user holds
NSessionSeeds == 3

SessionSeeds == {SessionSeed(n) : n \in 1..NSessionSeeds}

\* the recovered share that comes with a seed: none, or a secret share
SessionRecovered == {NoneString, VECTOR2_S}

\* the inputs at a prompt that is interrupted
KeyboardInterrupt == <<-3>>

\* what the user types at "Activate key": nothing, back, list numbers in and
\* out of range, a number between blanks, fingerprints in either case, a
\* superscript two, other text
SwitchChoices ==
    {<< >>, <<98>>, <<98, 97, 99, 107>>, <<48>>, <<49>>, <<50>>, <<51>>, <<52>>, <<49, 50>>,
     <<32, 50, 32>>, <<178>>, <<122, 122>>, <<45, 49>>}
        \cup {get_seed_fingerprint(seed) : seed \in SessionSeeds}
        \cup {Upper(get_seed_fingerprint(seed)) : seed \in SessionSeeds}

SessionInit ==
    /\ pc = "start"
    /\ value = None /\ share = None /\ data = None
    /\ symbols = None /\ verdict = None
    /\ shares = None /\ target = None /\ derived = None /\ recovered = None
    /\ subset = None /\ again = None
    /\ corrupted = None /\ original = None /\ hit = None /\ params = None
    /\ erasures = None
    /\ correction = None
    /\ search = None
    /\ codeword = None
    /\ errors = None
    /\ received = None
    /\ decoded = None
    /\ operands = None
    /\ computed = None
    /\ payload = None
    /\ out = None
    /\ box = None
    /\ intent = None
    /\ entry = None
    /\ \E seed \in SessionSeeds, recovered_share \in SessionRecovered :
          session = SessionCalled(seed, recovered_share)

\* a pass of the loop ends in s1
SessionGoesOn(s1) ==
    /\ session.at = "menu"
    /\ session' = s1
    /\ pc' = "session"
    /\ UNCHANGED <<value, share, data, symbols, verdict, shares, target,
                   derived, recovered, subset, again, corrupted, original, hit,
                   params, erasures, correction, search, codeword, errors,
                   received, decoded, operands, computed, payload, out, box,
                   intent, entry>>

\* KeyboardInterrupt at view.prompt_main_menu_choice
SessionMenuInterrupt ==
    SessionGoesOn(SessionReturn(SessionRead(session, "", KeyboardInterrupt), 1))

\* actions "1" and "2": the exports use the active key and change nothing;
\* their prompts can be interrupted
SessionExport ==
    \E action \in {"1", "2"}, input \in {<< >>, KeyboardInterrupt} :
       SessionGoesOn(IF input = KeyboardInterrupt
                       THEN SessionRaise(SessionRead(session, action, input),
                                         "KeyboardInterrupt")
                       ELSE SessionRead(session, action, input))

\* action "3": KeyboardInterrupt at view.prompt_psbt_input returns 1; signing
\* uses the active key and changes nothing
SessionSign ==
    \E input \in {<< >>, KeyboardInterrupt} :
       SessionGoesOn(IF input = KeyboardInterrupt
                       THEN SessionReturn(SessionRead(session, "3", input), 1)
                       ELSE SessionRead(session, "3", input))

\* action "4": the active key is displayed
SessionShow == SessionGoesOn(SessionRead(session, "4", << >>))

\* action "5": _load_seed_from_entry returns CANCELLED or a seed with its
\* recovered share, or is interrupted at one of its prompts
SessionLoad ==
    \/ SessionGoesOn(SessionRead(session, "5", CANCELLED))
    \/ SessionGoesOn(SessionRaise(SessionRead(session, "5", KeyboardInterrupt),
                                  "KeyboardInterrupt"))
    \/ \E seed \in SessionSeeds, recovered_share \in SessionRecovered :
          SessionGoesOn(SessionLoaded(SessionRead(session, "5", seed),
                                      seed, recovered_share))

\* action "6"
SessionSwitch ==
    \/ /\ Len(session.loaded_keys) < 2
       /\ SessionGoesOn(SessionError(SessionRead(session, "6", << >>),
                                     "No alternate key loaded yet"))
    \/ /\ Len(session.loaded_keys) >= 2
       /\ SessionGoesOn(SessionRaise(SessionRead(session, "6", KeyboardInterrupt),
                                     "KeyboardInterrupt"))
    \/ /\ Len(session.loaded_keys) >= 2
       /\ \E raw \in SwitchChoices :
             SessionGoesOn(SessionSwitched(
                 SessionRead(session, "6", raw),
                 _parse_switch_key_choice(raw, session.loaded_keys)))

\* action "7"
SessionQuit == SessionGoesOn(SessionReturn(SessionRead(session, "7", << >>), 0))

\* any other action
SessionInvalidAction ==
    SessionGoesOn(SessionError(SessionRead(session, "8", << >>), "Invalid action"))

SessionNext ==
    \/ SessionMenuInterrupt
    \/ SessionExport
    \/ SessionSign
    \/ SessionShow
    \/ SessionLoad
    \/ SessionSwitch
    \/ SessionQuit
    \/ SessionInvalidAction

SpecSession == SessionInit /\ [][SessionNext]_vars

\* the seeds of the keys loaded
LoadedSeeds(s) == {s.loaded_keys[i].seed_bytes : i \in 1..Len(s.loaded_keys)}

\* active_key_index is an index of loaded_keys, and no two loaded keys have
\* equal seed bytes
SessionKeys ==
    /\ session.active_key_index \in 0..(Len(session.loaded_keys) - 1)
    /\ \A i, j \in 1..Len(session.loaded_keys) :
          i # j => session.loaded_keys[i].seed_bytes # session.loaded_keys[j].seed_bytes

\* the loop has ended on action 7 with result 0, or on a keyboard interrupt,
\* with result 1 where the loop catches it
SessionEnded ==
    session.at # "menu" =>
       \/ session.at = "returned" /\ session.action = "7" /\ session.result = 0
       \/ /\ session.input = KeyboardInterrupt
          /\ session.at = "returned" => session.result = 1
          /\ session.at = "raised" => session.raised = "KeyboardInterrupt"

\* what a pass of the loop does to loaded_keys and active_key_index
SessionStep ==
    /\ Len(session'.loaded_keys) >= Len(session.loaded_keys)
    /\ SubSeq(session'.loaded_keys, 1, Len(session.loaded_keys)) = session.loaded_keys
    /\ (session'.action = "5" /\ session'.input \in LoadedSeeds(session)) =>
          /\ session'.loaded_keys = session.loaded_keys
          /\ session'.loaded_keys[session'.active_key_index + 1].seed_bytes = session'.input
    /\ (session'.action = "5" /\ session'.input \in SessionSeeds \ LoadedSeeds(session)) =>
          /\ Len(session'.loaded_keys) = Len(session.loaded_keys) + 1
          /\ session'.loaded_keys[Len(session'.loaded_keys)].seed_bytes = session'.input
          /\ session'.active_key_index = Len(session'.loaded_keys) - 1
    /\ (session'.action = "5" /\ session'.input = CANCELLED) \/ session'.error # "" =>
          /\ session'.loaded_keys = session.loaded_keys
          /\ session'.active_key_index = session.active_key_index
    /\ session'.action # "5" => session'.loaded_keys = session.loaded_keys
    /\ session'.action \notin {"5", "6"} =>
          session'.active_key_index = session.active_key_index

\* C30: in _session_loop, after any sequence of menu actions, active_key_index
\* is a valid index into loaded_keys, loaded_keys never shrinks and never
\* holds two entries with equal seed bytes: loading a seed that is already
\* loaded only switches the active key to the existing entry, loading a new
\* seed appends it and makes it active, a cancelled load or an invalid or
\* out-of-range switch choice leaves both unchanged, and the loop ends only
\* on action 7 (result 0) or on a keyboard interrupt (result 1).
C30_SessionLoop == []SessionKeys /\ []SessionEnded /\ [][SessionStep]_vars

=============================================================================
